---- MODULE Spec2Model ----
(***************************************************************************)
(* Verification model of cheminfo/glycans.                                 *)
(*                                                                         *)
(*  - SpecLanes : withConcurrencyLimit, the bounded worker dispatcher of   *)
(*                fragmentMassesParallel.ts (fragmentCandidatesParallel)   *)
(*                and of fragmentByAdductParallel.                         *)
(*  - SpecDwar  : the DWAR reaction-rule filter of filterDwarIonization.ts *)
(*                (splitDwar, parseRow, getPositiveIonizationLabels,       *)
(*                filterDwarByIonization), on texts made of characters.    *)
(*  - SpecTree  : findPrecursorNodes, collectDescendantNodes and           *)
(*                buildDescendantNodeSet of the MS3 analysis (quickMs3).   *)
(*  - SpecMs3   : the per-adduct loop of the MS3 analysis and its score    *)
(*                table.                                                   *)
(*  - SpecRank  : the multi-candidate ranking script (loadCandidates,      *)
(*                scoring, sorting, solution rank, summary rows).          *)
(*  - SpecPrint : printRanks (summaries of the ranking files, pickBest).   *)
(*  - SpecLoad  : loadData of the benchmark loader, one asynchronous       *)
(*                function per data folder under Promise.all.              *)
(*  - SpecFrag  : fragmentCandidatesParallel, which builds one task per    *)
(*                (candidate, label) and runs them on the dispatcher.      *)
(*  - SpecIndex : assignUidsAndBuildMaps, getAncestorPath and             *)
(*                verifyFilteredTree of the MS3 analysis.                  *)
(*  - SpecWorkers : the dispatcher with the task factory of               *)
(*                fragmentCandidatesParallel and fragmentByAdductParallel: *)
(*                a task settles on the events of its worker thread.       *)
(***************************************************************************)
EXTENDS Integers, Sequences, FiniteSets, TLC

VARIABLES
    \* ---- withConcurrencyLimit ----
    pc,          \* "init" before the call, "running" after its synchronous part
    nTasks,      \* tasks.length
    limit,       \* the limit argument
    nextIndex,   \* the shared counter
    results,     \* the pre-sized result array, index -> value or Empty
    lanePc,      \* lane -> "await" | "done" | "failed"
    laneTask,    \* lane -> index of the task the lane awaits
    taskState,   \* index -> "unclaimed" | "running" | "fulfilled" | "rejected"
    started,     \* index -> how many times tasks[i]() was invoked
    claimedBy,   \* index -> set of lanes that claimed the index
    outer,       \* the promise withConcurrencyLimit returns
    \* ---- DWAR filter ----
    dwar,        \* the input text, a sequence of characters
    keepLabel,   \* the label argument
    labelsOut,   \* result of getPositiveIonizationLabels(dwar)
    textOut,     \* result of filterDwarByIonization(dwar, keepLabel)
    scopedOut,   \* result of getPositiveIonizationLabels on the filtered text
    \* ---- fragmentation tree (quickMs3) ----
    trees,       \* the forest: parent link and molecules of every node
    mz,          \* the target m/z
    ppm,         \* the accuracy in ppm
    precursorNodes,    \* result of findPrecursorNodes(trees, mz, ppm)
    descendantNodeSet, \* result of buildDescendantNodeSet(precursorNodes)
    \* ---- MS3 analysis (quickMs3) ----
    ms3Pc,       \* "start" | "loop" | "done" | "thrown"
    ionLabels,   \* the adducts to process
    adductIdx,   \* position of the for..of loop in ionLabels
    tableRows,   \* the rows pushed so far
    svgWrites,   \* number of pending file writes pushed so far
    ms3Log,      \* per processed adduct, what the iteration computed
    tableContent, \* the text written to scores.txt
    \* ---- multi-candidate ranking script ----
    rankPc,      \* "start" | "loop" | "done"
    rankInput,   \* what the script finds on disk and gets from the workers
    candidates,  \* the candidate names, as loadCandidates returns them
    data,        \* the data entries: folder name and spectrum names
    adductLabels, \* the sorted labels of allMasses
    comboIdx,    \* position of the nested loops, in combinations done
    scored,      \* the sorted rows of the last combination
    summaryRows, \* the summary rows pushed so far
    rankContent, \* the last ranking file written
    summaryContent, \* the text written to summary.txt
    \* ---- printRanks ----
    printPc,     \* "start" | "summarised" | "cosine" | "done"
    allRankings, \* the parsed ranking files, sorted
    summaries,   \* one SummaryEntry per ranking file
    bestCosine,  \* pickBest(summaries, 'cosineRank', ...)
    bestTanimoto, \* pickBest(summaries, 'tanimotoRank', ...)
    cosineContent,  \* the text written to summary_cosine.txt
    tanimotoContent, \* the text written to summary_tanimoto.txt
    \* ---- loadData ----
    loadPc,      \* "start" before readdir(basePath) returned, then "mapped"
    folders,     \* the sub-folders of basePath and their files
    folderPromise,   \* folder -> the promise of its async function
    spectrumPromise, \* folder -> spectrum file -> the promise of its function
    loaded,      \* the promise loadData returns
    \* ---- fragmentCandidatesParallel ----
    fragPc,      \* "start" | "built" | "thrown"
    fragInput,   \* the candidates and the options argument
    tasks,       \* per task, the workerData its worker is started with
    \* ---- worker threads ----
    ended,       \* the task indexes whose worker thread has ended
    \* ---- structural maps of the tree (quickMs3) ----
    indexPc,     \* "start" | "assigned" | "verified"
    uidCounter,  \* the module-level counter
    uidOf,       \* node -> node.uid
    parentMap,   \* child uid -> parent uid
    childrenMap, \* parent uid -> set of child uids
    uidToNode,   \* uid -> node
    filteredTrees, \* the trees getFilteredReactions returned
    verification \* what verifyFilteredTree counted and logged

lanesVars == <<pc, nTasks, limit, nextIndex, results, lanePc, laneTask,
               taskState, started, claimedBy, outer>>
dwarVars == <<dwar, keepLabel, labelsOut, textOut, scopedOut>>
treeVars == <<trees, mz, ppm, precursorNodes, descendantNodeSet>>
ms3Vars == <<ms3Pc, ionLabels, adductIdx, tableRows, svgWrites, ms3Log,
             tableContent>>
rankVars == <<rankPc, rankInput, candidates, data, adductLabels, comboIdx, scored,
              summaryRows, rankContent, summaryContent>>
printVars == <<printPc, allRankings, summaries, bestCosine, bestTanimoto,
               cosineContent, tanimotoContent>>
loadVars == <<loadPc, folders, folderPromise, spectrumPromise, loaded>>
fragVars == <<fragPc, fragInput, tasks>>
workerVars == <<ended>>
indexVars == <<indexPc, uidCounter, uidOf, parentMap, childrenMap, uidToNode,
               filteredTrees, verification>>
vars == <<lanesVars, dwarVars, treeVars, ms3Vars, rankVars, printVars, loadVars,
          fragVars, workerVars, indexVars>>
\* What each component leaves alone.
notLanes == <<dwarVars, treeVars, ms3Vars, rankVars, printVars,
              loadVars, fragVars, workerVars, indexVars>>
notDwar == <<lanesVars, treeVars, ms3Vars, rankVars, printVars,
             loadVars, fragVars, workerVars, indexVars>>
notTree == <<lanesVars, dwarVars, ms3Vars, rankVars, printVars,
             loadVars, fragVars, workerVars, indexVars>>
\* The MS3 analysis reads the rule file and walks the tree of each adduct.
notMs3 == <<lanesVars, keepLabel, labelsOut, textOut, scopedOut, rankVars,
            printVars, loadVars, fragVars, workerVars, indexVars>>
notPrint == <<lanesVars, dwarVars, treeVars, ms3Vars, rankVars, loadVars,
             fragVars, workerVars, indexVars>>
notLoad == <<lanesVars, dwarVars, treeVars, ms3Vars, rankVars, printVars,
            fragVars, workerVars, indexVars>>
notWorkers == <<dwarVars, treeVars, ms3Vars, rankVars, printVars, loadVars,
               fragVars, indexVars>>
\* The structural maps are built on the trees the MS3 analysis walks.
notIndex == <<lanesVars, dwarVars, mz, ppm, precursorNodes, descendantNodeSet,
             ms3Vars, rankVars, printVars, loadVars, fragVars, workerVars>>
\* fragmentCandidatesParallel reads the rule file and calls the dispatcher.
notFrag == <<keepLabel, labelsOut, textOut, scopedOut, treeVars, ms3Vars,
            rankVars, printVars, loadVars, workerVars, indexVars>>
notRank == <<lanesVars, dwarVars, treeVars, ms3Vars, printVars,
             loadVars, fragVars, workerVars, indexVars>>

Min(a, b) == IF a < b THEN a ELSE b
Max(a, b) == IF a > b THEN a ELSE b

(***************************************************************************)
(* withConcurrencyLimit                                                    *)
(***************************************************************************)

\* Largest task list explored.
MaxTasks == 5

\* A slot of new Array(n) that was never written.
Empty == <<"empty">>
\* What tasks[i] resolves with, and what it rejects with.
TaskValue(i) == <<"value", i>>
TaskError(i) == <<"error", i>>

Pending == [state |-> "pending", value |-> Empty]

\* Array.from({ length: Math.min(limit, tasks.length) }, ...): a negative
\* length is clamped to 0 by ToLength.
NumLanesNoLimit(lim, n) == n
NumLanes(lim, n) == Max(0, Min(lim, n))

Lanes == DOMAIN lanePc
Indices == 0..(nTasks - 1)

InFlight == {i \in Indices : taskState[i] = "running"}

\* await Promise.all(lanes): rejected with the first lane failure, fulfilled
\* once every lane returned; then `return results`.
SettleOuter(o, lpc, res) ==
    IF o.state # "pending" THEN o
    ELSE IF \A l \in DOMAIN lpc : lpc[l] = "done"
         THEN [state |-> "resolved", value |-> res]
         ELSE o

\* The state of a component that is not called in a run.
IdleLanes ==
    /\ pc = "idle"
    /\ nTasks = 0
    /\ limit = 0
    /\ nextIndex = 0
    /\ results = <<>>
    /\ lanePc = <<>>
    /\ laneTask = <<>>
    /\ taskState = <<>>
    /\ started = <<>>
    /\ claimedBy = <<>>
    /\ outer = Pending
IdleDwar ==
    /\ dwar = <<>>
    /\ keepLabel = <<>>
    /\ labelsOut = <<>>
    /\ textOut = <<>>
    /\ scopedOut = <<>>
IdleTree ==
    /\ trees = <<>>
    /\ mz = 0
    /\ ppm = 0
    /\ precursorNodes = <<>>
    /\ descendantNodeSet = <<>>
IdleMs3 ==
    /\ ms3Pc = "idle"
    /\ ionLabels = <<>>
    /\ adductIdx = 0
    /\ tableRows = <<>>
    /\ svgWrites = 0
    /\ ms3Log = <<>>
    /\ tableContent = <<>>
IdleRank ==
    /\ rankPc = "idle"
    /\ rankInput = <<>>
    /\ candidates = <<>>
    /\ data = <<>>
    /\ adductLabels = <<>>
    /\ comboIdx = 0
    /\ scored = <<>>
    /\ summaryRows = <<>>
    /\ rankContent = <<>>
    /\ summaryContent = <<>>
IdlePrint ==
    /\ printPc = "idle"
    /\ allRankings = <<>>
    /\ summaries = <<>>
    /\ bestCosine = <<>>
    /\ bestTanimoto = <<>>
    /\ cosineContent = <<>>
    /\ tanimotoContent = <<>>
IdleLoad ==
    /\ loadPc = "idle"
    /\ folders = <<>>
    /\ folderPromise = <<>>
    /\ spectrumPromise = <<>>
    /\ loaded = Pending
IdleFrag ==
    /\ fragPc = "idle"
    /\ fragInput = <<>>
    /\ tasks = <<>>
IdleWorkers ==
    /\ ended = {}
IdleIndex ==
    /\ indexPc = "idle"
    /\ uidCounter = 0
    /\ uidOf = <<>>
    /\ parentMap = <<>>
    /\ childrenMap = <<>>
    /\ uidToNode = <<>>
    /\ filteredTrees = <<>>
    /\ verification = <<>>

InitLanes ==
    /\ pc = "init"
    /\ nTasks \in 0..MaxTasks
    /\ limit \in (0 - 1)..(MaxTasks + 1)
    /\ nextIndex = 0
    /\ results = [i \in 0..(nTasks - 1) |-> Empty]
    /\ lanePc = <<>>
    /\ laneTask = <<>>
    /\ taskState = [i \in 0..(nTasks - 1) |-> "unclaimed"]
    /\ started = [i \in 0..(nTasks - 1) |-> 0]
    /\ claimedBy = [i \in 0..(nTasks - 1) |-> {}]
    /\ outer = Pending
    /\ IdleDwar
    /\ IdleTree
    /\ IdleMs3
    /\ IdleRank
    /\ IdlePrint
    /\ IdleLoad
    /\ IdleFrag
    /\ IdleWorkers
    /\ IdleIndex

\* The synchronous part of the call: every lane() runs up to its first await,
\* so lane k (1-based) finds nextIndex = k-1, claims it and invokes the task;
\* a lane that finds nextIndex >= tasks.length returns at once.
Call ==
    /\ pc = "init"
    /\ pc' = "running"
    /\ LET k == NumLanes(limit, nTasks)
           c == Min(k, nTasks)
       IN /\ lanePc' = [l \in 1..k |-> IF l <= nTasks THEN "await" ELSE "done"]
          /\ laneTask' = [l \in 1..k |-> IF l <= nTasks THEN l - 1 ELSE 0 - 1]
          /\ nextIndex' = c
          /\ taskState' = [i \in Indices |-> IF i < c THEN "running" ELSE "unclaimed"]
          /\ started' = [i \in Indices |-> IF i < c THEN 1 ELSE 0]
          /\ claimedBy' = [i \in Indices |-> IF i < c THEN {i + 1} ELSE {}]
          /\ outer' = SettleOuter(outer, lanePc', results)
    /\ UNCHANGED <<nTasks, limit, results>>
    /\ UNCHANGED notLanes

\* The promise returned by tasks[i]() settles.
TaskFulfil(i) ==
    /\ pc = "running"
    /\ taskState[i] = "running"
    /\ taskState' = [taskState EXCEPT ![i] = "fulfilled"]
    /\ UNCHANGED <<pc, nTasks, limit, nextIndex, results, lanePc, laneTask,
                   started, claimedBy, outer>>
    /\ UNCHANGED notLanes

TaskReject(i) ==
    /\ pc = "running"
    /\ taskState[i] = "running"
    /\ taskState' = [taskState EXCEPT ![i] = "rejected"]
    /\ UNCHANGED <<pc, nTasks, limit, nextIndex, results, lanePc, laneTask,
                   started, claimedBy, outer>>
    /\ UNCHANGED notLanes

\* results[i] = <awaited value>
StoreAtPush(res, i, v) ==
    LET free == {j \in DOMAIN res : res[j] = Empty}
        slot == CHOOSE j \in free : \A m \in free : j <= m
    IN [res EXCEPT ![slot] = v]
StoreAt(res, i, v) == [res EXCEPT ![i] = v]

\* const i = nextIndex++
AfterClaimNoIncrement(n) == n
AfterClaim(n) == n + 1

\* The lane's await throws: the lane's promise rejects, and so does
\* Promise.all unless it is settled already.
LaneThrowsSwallowed(l) ==
    /\ lanePc' = [lanePc EXCEPT ![l] = "done"]
    /\ outer' = SettleOuter(outer, lanePc', results)
    /\ UNCHANGED <<pc, nTasks, limit, nextIndex, results, laneTask,
                   taskState, started, claimedBy>>
LaneThrows(l) ==
    /\ lanePc' = [lanePc EXCEPT ![l] = "failed"]
    /\ outer' = IF outer.state = "pending"
                THEN [state |-> "rejected", value |-> TaskError(laneTask[l])]
                ELSE outer
    /\ UNCHANGED <<pc, nTasks, limit, nextIndex, results, laneTask,
                   taskState, started, claimedBy>>

\* while (nextIndex < tasks.length)
LoopsOnce(next, n) == FALSE
Loops(next, n) == next < n

\* The lane's await returns: the value is stored at the task's own index, then
\* the loop condition is evaluated again.
LaneContinues(l) ==
    LET i == laneTask[l] IN
    /\ results' = StoreAt(results, i, TaskValue(i))
    /\ IF Loops(nextIndex, nTasks)
       THEN /\ nextIndex' = AfterClaim(nextIndex)
            /\ laneTask' = [laneTask EXCEPT ![l] = nextIndex]
            /\ taskState' = [taskState EXCEPT ![nextIndex] = "running"]
            /\ started' = [started EXCEPT ![nextIndex] = @ + 1]
            /\ claimedBy' = [claimedBy EXCEPT ![nextIndex] = @ \cup {l}]
            /\ UNCHANGED <<lanePc, outer>>
       ELSE /\ lanePc' = [lanePc EXCEPT ![l] = "done"]
            /\ outer' = SettleOuter(outer, lanePc', results')
            /\ UNCHANGED <<nextIndex, laneTask, taskState, started, claimedBy>>
    /\ UNCHANGED <<pc, nTasks, limit>>

\* A lane resumes after the task it awaits has settled.
LaneResume(l) ==
    /\ pc = "running"
    /\ lanePc[l] = "await"
    /\ \/ /\ taskState[laneTask[l]] = "fulfilled"
          /\ LaneContinues(l)
       \/ /\ taskState[laneTask[l]] = "rejected"
          /\ LaneThrows(l)
    /\ UNCHANGED notLanes

NextLanes ==
    \/ Call
    \/ \E i \in Indices : TaskFulfil(i)
    \/ \E i \in Indices : TaskReject(i)
    \/ \E l \in Lanes : LaneResume(l)

(***************************************************************************)
(* Claims about withConcurrencyLimit (checked under SpecLanes)             *)
(***************************************************************************)

Rejected == {i \in Indices : taskState[i] = "rejected"}
NoLaneAwaits == \A l \in Lanes : lanePc[l] # "await"

\* C1: for a limit in 1..N, when the call resolves, element i of the returned
\* array is the value produced by tasks[i], for every i, whatever order the
\* tasks completed in.
C1_OrderPreserved ==
    (limit >= 1 /\ limit <= nTasks /\ outer.state = "resolved")
        => /\ DOMAIN outer.value = Indices
           /\ \A i \in Indices : outer.value[i] = TaskValue(i)

\* A resolved run of 3 tasks on 2 lanes in which task 1 settled before task 0:
\* the second lane went on to claim task 2.
C1_Witness ==
    /\ nTasks = 3 /\ limit = 2
    /\ outer.state = "resolved"
    /\ claimedBy[2] = {2}

\* C2: when a task rejects, the call never resolves with a result array; when
\* exactly one task rejected and its lane has resumed (in particular once every
\* lane has stopped), the call is rejected with that task's error.
C2_FailFast ==
    /\ (Rejected # {} => outer.state # "resolved")
    /\ \A i \in Indices :
          (Rejected = {i} /\ (NoLaneAwaits \/ \E l \in Lanes : lanePc[l] = "failed"))
              => (outer.state = "rejected" /\ outer.value = TaskError(i))

\* Task 1 alone failed after task 0 had completed and stored its value; every
\* lane has stopped.
C2_Witness ==
    /\ nTasks >= 3
    /\ Rejected = {1}
    /\ results[0] = TaskValue(0)
    /\ NoLaneAwaits
    /\ outer.state = "rejected"

\* C3: with limit >= 1 the number of tasks started and not yet settled is
\* never more than min(limit, number of tasks).
C3_ConcurrencyBound ==
    limit >= 1 => Cardinality(InFlight) <= Min(limit, nTasks)

\* 5 tasks, limit 2: two tasks in flight, the last two claimed ones.
C3_Witness ==
    /\ nTasks = 5 /\ limit = 2
    /\ InFlight = {3, 4}

\* C4: with limit >= 1, no index is claimed by two lanes or invoked twice, an
\* index is invoked exactly when it is claimed, and when no task fails the
\* call resolves only after every index was claimed by exactly one lane,
\* invoked exactly once and settled.
C4_ExactlyOnce ==
    limit >= 1 =>
        /\ \A i \in Indices :
              /\ started[i] <= 1
              /\ Cardinality(claimedBy[i]) = started[i]
              /\ (started[i] = 1) <=> (taskState[i] # "unclaimed")
        /\ (Rejected = {} /\ outer.state = "resolved") =>
              \A i \in Indices :
                  /\ started[i] = 1
                  /\ Cardinality(claimedBy[i]) = 1
                  /\ taskState[i] = "fulfilled"

\* A resolved run in which one lane ran three of the four tasks.
C4_Witness ==
    /\ nTasks = 4 /\ limit = 2
    /\ outer.state = "resolved"
    /\ \A i \in Indices : started[i] = 1
    /\ \E l \in Lanes : Cardinality({i \in Indices : claimedBy[i] = {l}}) = 3


(***************************************************************************)
(* DWAR filter: texts are sequences of one-character strings               *)
(***************************************************************************)

NL == "\n"
TAB == "\t"

\* '</column properties>', 'ionization', 'positive', '<rowcount="' and '">'
ColumnPropertiesEnd == <<"<", "/", "c", "o", "l", "u", "m", "n", " ", "p", "r", "o", "p", "e", "r", "t", "i", "e", "s", ">">>
IonizationKind == <<"i", "o", "n", "i", "z", "a", "t", "i", "o", "n">>
PositiveMode == <<"p", "o", "s", "i", "t", "i", "v", "e">>
RowcountOpen == <<"<", "r", "o", "w", "c", "o", "u", "n", "t", "=", "\"">>
RowcountClose == <<"\"", ">">>
KindName == <<"k", "i", "n", "d">>
ModeName == <<"m", "o", "d", "e">>
LabelName == <<"l", "a", "b", "e", "l">>

\* The value of a property that is absent from an object.
Undefined == <<"undefined">>

\* What a function that threw leaves to its caller.
Thrown(msg) == [state |-> "thrown", value |-> msg]
\* What a function that returned gives to its caller.
Returned(v) == [state |-> "returned", value |-> v]
\* A function that was not applied yet.
NotCalled == [state |-> "none", value |-> <<>>]

\* String.prototype.startsWith, at position p (1-based).
StartsWithAt(s, p, prefix) ==
    /\ p + Len(prefix) - 1 <= Len(s)
    /\ \A k \in 1..Len(prefix) : s[p + k - 1] = prefix[k]
StartsWith(s, prefix) == StartsWithAt(s, 1, prefix)

\* String.prototype.includes.
Includes(s, sub) == \E p \in 1..(Len(s) + 1) : StartsWithAt(s, p, sub)

\* String.prototype.split with a one-character separator: the pieces between
\* the separators at positions seps, left to right; never empty.
RECURSIVE SplitAt(_, _, _)
SplitAt(s, start, seps) ==
    IF seps = {} THEN <<SubSeq(s, start, Len(s))>>
    ELSE LET p == CHOOSE a \in seps : \A b \in seps : a <= b
         IN <<SubSeq(s, start, p - 1)>> \o SplitAt(s, p + 1, seps \ {p})
Split(s, sep) == SplitAt(s, 1, {i \in 1..Len(s) : s[i] = sep})

\* Array.prototype.join with a one-character separator: '' for no element.
RECURSIVE Join(_, _)
Join(parts, sep) ==
    IF Len(parts) = 0 THEN <<>>
    ELSE IF Len(parts) = 1 THEN parts[1]
    ELSE parts[1] \o <<sep>> \o Join(Tail(parts), sep)

\* String.prototype.trim: white space is removed at both ends.
WhiteSpace == {" ", "\t", "\n", "\r"}
Trim(s) ==
    LET inked == {k \in 1..Len(s) : s[k] \notin WhiteSpace}
    IN IF inked = {} THEN <<>>
       ELSE SubSeq(s, CHOOSE a \in inked : \A b \in inked : a <= b,
                      CHOOSE a \in inked : \A b \in inked : a >= b)

\* String(n) for an array length.
DigitChars == <<"0", "1", "2", "3", "4", "5", "6", "7", "8", "9">>
RECURSIVE String(_)
String(n) ==
    IF n < 10 THEN <<DigitChars[n + 1]>>
    ELSE String(n \div 10) \o <<DigitChars[(n % 10) + 1]>>

IsDigit(c) == \E d \in 1..10 : DigitChars[d] = c

\* The number of digits of s from position p on (\d+ is greedy).
RECURSIVE DigitRun(_, _)
DigitRun(s, p) ==
    IF p <= Len(s) /\ IsDigit(s[p]) THEN 1 + DigitRun(s, p + 1) ELSE 0

\* /<rowcount="\d+">/ matches at position p: the length matched, else 0.
RowcountMatchOneDigit(s, p) ==
    IF ~StartsWithAt(s, p, RowcountOpen) THEN 0
    ELSE LET d == Min(1, DigitRun(s, p + Len(RowcountOpen)))
         IN IF d >= 1 /\ StartsWithAt(s, p + Len(RowcountOpen) + d, RowcountClose)
            THEN Len(RowcountOpen) + d + Len(RowcountClose)
            ELSE 0
RowcountMatch(s, p) ==
    IF ~StartsWithAt(s, p, RowcountOpen) THEN 0
    ELSE LET d == DigitRun(s, p + Len(RowcountOpen))
         IN IF d >= 1 /\ StartsWithAt(s, p + Len(RowcountOpen) + d, RowcountClose)
            THEN Len(RowcountOpen) + d + Len(RowcountClose)
            ELSE 0

\* preamble.replace(/<rowcount="\d+">/, `<rowcount="${String(n)}">`): the
\* leftmost match only.
ReplaceRowcount(preamble, n) ==
    LET hits == {p \in 1..Len(preamble) : RowcountMatch(preamble, p) > 0}
    IN IF hits = {} THEN preamble
       ELSE LET p == CHOOSE a \in hits : \A b \in hits : a <= b
                m == RowcountMatch(preamble, p)
            IN SubSeq(preamble, 1, p - 1)
                 \o RowcountOpen \o String(n) \o RowcountClose
                 \o SubSeq(preamble, p + m, Len(preamble))

\* lines[i]?.startsWith('</column properties>')
IsBoundaryLineIncludes(line) == Includes(line, ColumnPropertiesEnd)
IsBoundaryLine(line) == StartsWith(line, ColumnPropertiesEnd)

\* splitDwar: column names, preamble, data rows and epilogue of a text.
splitDwar(text) ==
    LET lines == Split(text, NL)
        found == {i \in 1..Len(lines) : IsBoundaryLine(lines[i])}
    IN IF found = {} THEN Thrown("Could not find </column properties> in DWAR")
       ELSE
        \* h is the position of the column header row (lines[dataStart])
        LET h == 1 + CHOOSE a \in found : \A b \in found : a <= b
        IN IF h > Len(lines) \/ lines[h] = <<>>
           THEN Thrown("Missing column header row in DWAR")
           ELSE
            LET marked == {i \in (h + 1)..Len(lines) : StartsWith(lines[i], <<"<">>)}
                dataEnd == IF marked = {} THEN Len(lines) + 1
                           ELSE CHOOSE a \in marked : \A b \in marked : a <= b
            IN Returned([columnNames |-> Split(lines[h], TAB),
                         preamble |-> Join(SubSeq(lines, 1, h), NL),
                         rows |-> SubSeq(lines, h + 1, dataEnd - 1),
                         epilogue |-> Join(SubSeq(lines, dataEnd, Len(lines)), NL)])

\* parseRow(row, columnNames)[name]: the value under the last column of that
\* name, '' when the row is too short, undefined when no column has the name.
parseRow(row, columnNames, name) ==
    LET values == Split(row, TAB)
        at == {i \in 1..Len(columnNames) : columnNames[i] = name}
    IN IF at = {} THEN Undefined
       ELSE LET i == CHOOSE a \in at : \A b \in at : a >= b
            IN IF i <= Len(values) THEN values[i] ELSE <<>>

\* The row adds its label to the Set of getPositiveIonizationLabels.
IsPositiveIonizationAnyMode(row, columnNames) ==
    /\ Trim(row) # <<>>
    /\ parseRow(row, columnNames, KindName) = IonizationKind
    /\ parseRow(row, columnNames, LabelName) \notin {Undefined, <<>>}
IsPositiveIonization(row, columnNames) ==
    /\ Trim(row) # <<>>
    /\ parseRow(row, columnNames, KindName) = IonizationKind
    /\ parseRow(row, columnNames, ModeName) # Undefined
    /\ Includes(parseRow(row, columnNames, ModeName), PositiveMode)
    /\ parseRow(row, columnNames, LabelName) \notin {Undefined, <<>>}

\* [...labels] of a Set filled row by row: insertion order, no duplicate.
RECURSIVE CollectLabels(_, _, _, _)
CollectLabels(rows, columnNames, k, acc) ==
    IF k > Len(rows) THEN acc
    ELSE LET lab == parseRow(rows[k], columnNames, LabelName)
         IN IF IsPositiveIonization(rows[k], columnNames)
                /\ \A j \in 1..Len(acc) : acc[j] # lab
            THEN CollectLabels(rows, columnNames, k + 1, Append(acc, lab))
            ELSE CollectLabels(rows, columnNames, k + 1, acc)

getPositiveIonizationLabels(text) ==
    LET split == splitDwar(text)
        parts == split.value
    IN IF split.state = "thrown" THEN split
       ELSE Returned(CollectLabels(parts.rows, parts.columnNames, 1, <<>>))

\* The predicate of rows.filter in filterDwarByIonization.
KeepRowLabelOnly(row, columnNames, keep) ==
    /\ Trim(row) # <<>>
    /\ parseRow(row, columnNames, LabelName) = keep
KeepRowNonBlank(row, columnNames, keep) == Trim(row) # <<>>
KeepRow(row, columnNames, keep) ==
    /\ Trim(row) # <<>>
    /\ parseRow(row, columnNames, KindName) = IonizationKind
          => parseRow(row, columnNames, LabelName) = keep

filterDwarByIonization(text, keep) ==
    LET split == splitDwar(text)
        parts == split.value
    IN IF split.state = "thrown" THEN split
       ELSE LET filteredRows ==
                    SelectSeq(parts.rows, LAMBDA r : KeepRow(r, parts.columnNames, keep))
                updatedPreamble == ReplaceRowcount(parts.preamble, Len(filteredRows))
            IN Returned(Join(<<updatedPreamble>> \o filteredRows \o <<parts.epilogue>>, NL))

(***************************************************************************)
(* DWAR filter: the texts it is applied to, and its calls                  *)
(***************************************************************************)

\* Longest list of data rows explored.
MaxRows == 3

\* Labels, as in the rule files (Ionization-Na and so on, shortened).
LabelNa == <<"N", "a">>
LabelH == <<"H">>
LabelK == <<"K">>

\* The rows a rule file is made of: ionizations (K in negative mode only,
\* one without a label), a reaction that carries a label too, an empty line.
IonNa == [label |-> LabelNa, kind |-> IonizationKind, mode |-> PositiveMode]
IonH == [label |-> LabelH, kind |-> IonizationKind, mode |-> PositiveMode]
IonK == [label |-> LabelK, kind |-> IonizationKind, mode |-> <<"n", "e", "g", "a", "t", "i", "v", "e">>]
IonUnlabelled == [label |-> <<>>, kind |-> IonizationKind, mode |-> PositiveMode]
Reaction == [label |-> LabelNa, kind |-> <<"r", "e", "a", "c", "t", "i", "o", "n">>, mode |-> PositiveMode]
EmptyLine == [label |-> <<>>, kind |-> <<>>, mode |-> <<>>]

RowKinds == {IonNa, IonH, IonK, IonUnlabelled, Reaction, EmptyLine}
FewRowKinds == {IonNa, IonK, Reaction, EmptyLine}

HeaderLKM == <<LabelName, KindName, ModeName>>
HeaderKL == <<KindName, LabelName>>

\* A row written under the given column names.
RowText(r, columnNames) ==
    IF r = EmptyLine THEN <<>>
    ELSE Join([c \in 1..Len(columnNames) |->
                  IF columnNames[c] = LabelName THEN r.label
                  ELSE IF columnNames[c] = KindName THEN r.kind
                  ELSE r.mode], TAB)

ListsOver(kinds, n) == UNION {[1..m -> kinds] : m \in 0..n}

\* The header block: the row count, right ("right"), stale ("stale") or
\* missing ("none").
CountLine(how, rows) ==
    IF how = "right"
    THEN RowcountOpen
           \o String(Cardinality({k \in 1..Len(rows) : rows[k] # EmptyLine}))
           \o RowcountClose
    ELSE IF how = "stale" THEN RowcountOpen \o String(12) \o RowcountClose
    ELSE <<"<", "v", "e", "r", "s", "i", "o", "n", "=", "\"", "3", "\"", ">">>

\* After the data rows: an epilogue ("epilogue"), a final line break
\* ("newline") or the end of the text ("end").
TailLines(how) ==
    IF how = "epilogue" THEN <<<<"<", "h", "i", "t", "l", "i", "s", "t", " ", "d", "a", "t", "a", ">">>>>
    ELSE IF how = "newline" THEN <<<<>>>>
    ELSE <<>>

\* A rule file: header block, block boundary, column header row, rows, tail.
Text(count, boundary, header, rows, tail) ==
    Join(<<CountLine(count, rows), boundary, Join(header, TAB)>>
           \o [k \in 1..Len(rows) |-> RowText(rows[k], header)]
           \o TailLines(tail), NL)

Counts == {"right", "stale", "none"}
TailKinds == {"epilogue", "newline", "end"}

\* Every list of rows, in two layouts.
RowTexts ==
    { Text("right", ColumnPropertiesEnd, HeaderLKM, rows, "epilogue") :
        rows \in ListsOver(RowKinds, MaxRows) }
    \cup { Text("stale", ColumnPropertiesEnd, HeaderKL, rows, "newline") :
        rows \in ListsOver(RowKinds, MaxRows) }

\* Every layout, around shorter lists of rows.
LayoutTexts ==
    { Text(x[1], ColumnPropertiesEnd, x[2], x[3], x[4]) :
        x \in Counts \X {HeaderLKM, HeaderKL}
                \X ListsOver(FewRowKinds, MaxRows - 1) \X TailKinds }

\* The rule set of the filtering example: ionizations H, Na and K and a reaction.
ExampleTexts ==
    { Text("right", ColumnPropertiesEnd, HeaderLKM,
           <<IonH, Reaction, IonNa, IonK>>, t) : t \in TailKinds }

\* Texts without a line that starts with the block boundary, and texts that
\* end with the boundary line or with an empty line after it.
MalformedTexts ==
    { Text(x[1], <<" ">> \o ColumnPropertiesEnd, HeaderLKM, x[2], x[3]) :
        x \in Counts \X ListsOver(FewRowKinds, MaxRows - 1) \X {"epilogue", "end"} }
    \cup { Join(<<CountLine(c, <<>>), ColumnPropertiesEnd>> \o TailLines(t), NL) :
        c \in Counts, t \in {"newline", "end"} }

Texts == RowTexts \cup LayoutTexts \cup ExampleTexts \cup MalformedTexts

InitDwar ==
    /\ dwar \in Texts
    /\ keepLabel \in {LabelNa, LabelK}
    /\ labelsOut = NotCalled
    /\ textOut = NotCalled
    /\ scopedOut = NotCalled
    /\ IdleLanes
    /\ IdleTree
    /\ IdleMs3
    /\ IdleRank
    /\ IdlePrint
    /\ IdleLoad
    /\ IdleFrag
    /\ IdleWorkers
    /\ IdleIndex

\* const labels = getPositiveIonizationLabels(dwar)
DiscoverLabels ==
    /\ labelsOut.state = "none"
    /\ labelsOut' = getPositiveIonizationLabels(dwar)
    /\ UNCHANGED <<dwar, keepLabel, textOut, scopedOut>>
    /\ UNCHANGED notDwar

\* const filteredDwar = filterDwarByIonization(dwar, label)
FilterByLabel ==
    /\ textOut.state = "none"
    /\ textOut' = filterDwarByIonization(dwar, keepLabel)
    /\ UNCHANGED <<dwar, keepLabel, labelsOut, scopedOut>>
    /\ UNCHANGED notDwar

\* The filtered text is read again as a rule file.
RescanFiltered ==
    /\ textOut.state = "returned"
    /\ scopedOut.state = "none"
    /\ scopedOut' = getPositiveIonizationLabels(textOut.value)
    /\ UNCHANGED <<dwar, keepLabel, labelsOut, textOut>>
    /\ UNCHANGED notDwar

NextDwar ==
    \/ DiscoverLabels
    \/ FilterByLabel
    \/ RescanFiltered

(***************************************************************************)
(* Claims about the DWAR filter (checked under SpecDwar)                   *)
(***************************************************************************)

Range(seq) == {seq[k] : k \in DOMAIN seq}

\* The parts of the input text and of the filtered text, read as rule files.
InParts == splitDwar(dwar).value
OutParts == splitDwar(textOut.value).value
Filtered == textOut.state = "returned"

KindOf(row, columnNames) == parseRow(row, columnNames, KindName)
LabelOf(row, columnNames) == parseRow(row, columnNames, LabelName)
ModeOf(row, columnNames) == parseRow(row, columnNames, ModeName)
IsIonizationRow(row, columnNames) == KindOf(row, columnNames) = IonizationKind
IsBlankRow(row) == \A k \in 1..Len(row) : row[k] \in WhiteSpace
NonBlank(rows) == SelectSeq(rows, LAMBDA r : ~IsBlankRow(r))

\* a is b with some elements left out.
RECURSIVE IsSubsequenceFrom(_, _, _, _)
IsSubsequenceFrom(a, b, i, j) ==
    IF i > Len(a) THEN TRUE
    ELSE IF j > Len(b) THEN FALSE
    ELSE IF a[i] = b[j] THEN IsSubsequenceFrom(a, b, i + 1, j + 1)
    ELSE IsSubsequenceFrom(a, b, i, j + 1)
IsSubsequence(a, b) == IsSubsequenceFrom(a, b, 1, 1)

RECURSIVE FromDigits(_)
FromDigits(ds) ==
    IF Len(ds) = 0 THEN 0
    ELSE 10 * FromDigits(SubSeq(ds, 1, Len(ds) - 1))
           + ((CHOOSE d \in 1..10 : DigitChars[d] = ds[Len(ds)]) - 1)

\* The row-count markers of a text: <<p, d>> when '<rowcount="', d digits
\* and '">' stand at position p; and the number written in one.
MarkersOf(text) ==
    {m \in (1..Len(text)) \X (1..2) :
        /\ StartsWithAt(text, m[1], RowcountOpen)
        /\ m[1] + Len(RowcountOpen) + m[2] - 1 <= Len(text)
        /\ \A k \in 0..(m[2] - 1) : IsDigit(text[m[1] + Len(RowcountOpen) + k])
        /\ StartsWithAt(text, m[1] + Len(RowcountOpen) + m[2], RowcountClose)}
MarkerNumber(text, m) ==
    FromDigits(SubSeq(text, m[1] + Len(RowcountOpen),
                      m[1] + Len(RowcountOpen) + m[2] - 1))

\* C6: the number in the row-count marker of the filtered text equals the
\* number of data rows (lines that are not blank, between the column header
\* row and the epilogue) of the filtered text.
C6_RowcountMatches ==
    Filtered =>
        \A m \in MarkersOf(textOut.value) :
            MarkerNumber(textOut.value, m) = Len(NonBlank(OutParts.rows))

\* A stale count of 12 was rewritten to the 2 rows that remain of 3.
C6_Witness ==
    /\ Filtered
    /\ \E m \in MarkersOf(dwar) : MarkerNumber(dwar, m) = 12
    /\ Len(NonBlank(InParts.rows)) = 3
    /\ \E m \in MarkersOf(textOut.value) : MarkerNumber(textOut.value, m) = 2

\* The rows whose kind is 'ionization' and whose mode contains 'positive'.
PositiveIonizationRows ==
    LET cols == InParts.columnNames
    IN {k \in 1..Len(InParts.rows) :
           /\ IsIonizationRow(InParts.rows[k], cols)
           /\ ModeOf(InParts.rows[k], cols) # Undefined
           /\ Includes(ModeOf(InParts.rows[k], cols), PositiveMode)}
Discovered == labelsOut.state = "returned"

\* C7 as stated: the labels returned are exactly the label values of the
\* positive ionization rows, none twice.
C7_AsStated ==
    Discovered =>
        /\ Range(labelsOut.value)
             = {LabelOf(InParts.rows[k], InParts.columnNames) : k \in PositiveIonizationRows}
        /\ Cardinality(Range(labelsOut.value)) = Len(labelsOut.value)

\* C7, amended: the labels returned are exactly the label values that are
\* not empty of the positive ionization rows, none twice.
C7_DistinctLabels ==
    Discovered =>
        /\ Range(labelsOut.value)
             = {LabelOf(InParts.rows[k], InParts.columnNames) : k \in PositiveIonizationRows}
                 \ {<<>>, Undefined}
        /\ Cardinality(Range(labelsOut.value)) = Len(labelsOut.value)

\* Two Na rows and a negative K row give the single label Na.
C7_Witness ==
    /\ Discovered
    /\ labelsOut.value = <<LabelNa>>
    /\ Cardinality({k \in PositiveIonizationRows :
                      LabelOf(InParts.rows[k], InParts.columnNames) = LabelNa}) = 2
    /\ \E k \in 1..Len(InParts.rows) :
           /\ IsIonizationRow(InParts.rows[k], InParts.columnNames)
           /\ LabelOf(InParts.rows[k], InParts.columnNames) = LabelK

\* The lines of the input that start with '</column properties>'.
BoundaryLines ==
    LET lines == Split(dwar, NL)
    IN {i \in 1..Len(lines) : StartsWith(lines[i], ColumnPropertiesEnd)}
NoBoundary == BoundaryLines = {}
BoundaryIsLastLine == BoundaryLines = {Len(Split(dwar, NL))}

\* C8: on a text with no line that starts with the block boundary, or whose
\* last line is the boundary, both functions throw and return nothing.
C8_MalformedThrows ==
    (NoBoundary \/ BoundaryIsLastLine) =>
        /\ labelsOut.state \in {"none", "thrown"}
        /\ textOut.state \in {"none", "thrown"}
        /\ scopedOut.state = "none"

\* Both functions were applied to a text whose boundary is indented.
C8_Witness ==
    /\ NoBoundary
    /\ Includes(dwar, ColumnPropertiesEnd)
    /\ labelsOut.state = "thrown"
    /\ textOut.state = "thrown"

\* The input without the lines of the ionization rows that are not labelled
\* keepLabel.
WithoutRemovedRows ==
    LET lines == Split(dwar, NL)
        h == Len(Split(InParts.preamble, NL))
        cols == InParts.columnNames
        n == Len(InParts.rows)
    IN Join(SubSeq(lines, 1, h)
              \o SelectSeq(InParts.rows,
                   LAMBDA r : IsIonizationRow(r, cols) => LabelOf(r, cols) = keepLabel)
              \o SubSeq(lines, h + n + 1, Len(lines)), NL)

\* C9 as stated: the filtered text differs from the input only by the removed
\* ionization rows and the digits of the row-count marker.
C9_AsStated ==
    Filtered => ReplaceRowcount(textOut.value, 0) = ReplaceRowcount(WithoutRemovedRows, 0)

\* C10: the labels discovered in the text filtered by keepLabel are keepLabel
\* alone when keepLabel was discovered in the input, and never another label.
C10_ScopedToLabel ==
    scopedOut.state = "returned" =>
        /\ Range(scopedOut.value) \subseteq {keepLabel}
        /\ (Discovered /\ keepLabel \in Range(labelsOut.value))
              => scopedOut.value = <<keepLabel>>

\* Na and H were discovered in the input, Na alone in the text filtered by Na.
C10_Witness ==
    /\ Discovered
    /\ Range(labelsOut.value) = {LabelNa, LabelH}
    /\ keepLabel = LabelNa
    /\ scopedOut.state = "returned"
    /\ scopedOut.value = <<LabelNa>>

(***************************************************************************)
(* The fragmentation tree of the MS3 analysis: findPrecursorNodes,         *)
(* collectDescendantNodes, buildDescendantNodeSet                          *)
(***************************************************************************)

\* Largest forest explored, in nodes.
MaxNodes == 4

\* A forest is [parent, molecules]: node n (an object reference) is the n-th
\* element; parent[n] = 0 for a root of `trees`, else the node whose children
\* array holds n; molecules[n] is the list of the m/z of node.molecules.
\* children arrays and `trees` list their nodes in increasing order.
NoNode == 0
NodesOf(t) == 1..Len(t.parent)
\* trees: TreeNode[]
RootsOf(t) == SelectSeq([n \in NodesOf(t) |-> n], LAMBDA n : t.parent[n] = NoNode)
\* node.children ?? []
ChildrenOf(t, node) ==
    SelectSeq([n \in NodesOf(t) |-> n], LAMBDA n : t.parent[n] = node)

Abs(x) == IF x < 0 THEN 0 - x ELSE x

\* 1e-6, as the integer it divides by.
PpmScale == 1000000

\* const tolerance = mol.info.mz * 1e-6 * ppm;
\* Math.abs(mol.info.mz - mz) <= tolerance         (both sides times 1e6)
WithinTolerance(molMz, targetMz, accuracy) ==
    Abs(molMz - targetMz) * PpmScale <= molMz * accuracy

\* for (const mol of node.molecules) { if (...) { found.push(node); return; } }
NodeMatches(t, node, targetMz, accuracy) ==
    \E k \in DOMAIN t.molecules[node] :
        WithinTolerance(t.molecules[node][k], targetMz, accuracy)

\* walk(node) of findPrecursorNodes: what it appends to `found`, and the nodes
\* walk was called on, in call order.
RECURSIVE walk(_, _, _, _)
RECURSIVE walkEach(_, _, _, _)
walkEachIntoMatches(t, nodes, targetMz, accuracy) ==
    IF nodes = <<>> THEN [found |-> <<>>, visited |-> <<>>]
    ELSE LET node == Head(nodes)
             below == walkEach(t, ChildrenOf(t, node), targetMz, accuracy)
             here == IF NodeMatches(t, node, targetMz, accuracy)
                     THEN <<node>> ELSE <<>>
             rest == walkEach(t, Tail(nodes), targetMz, accuracy)
         IN [found |-> here \o below.found \o rest.found,
             visited |-> <<node>> \o below.visited \o rest.visited]
walk(t, node, targetMz, accuracy) ==
    IF NodeMatches(t, node, targetMz, accuracy)
    THEN [found |-> <<node>>, visited |-> <<node>>]
    ELSE LET below == walkEach(t, ChildrenOf(t, node), targetMz, accuracy)
         IN [found |-> below.found, visited |-> <<node>> \o below.visited]
\* for (const child of node.children ?? []) walk(child), and
\* for (const tree of trees) walk(tree)
walkEach(t, nodes, targetMz, accuracy) ==
    IF nodes = <<>> THEN [found |-> <<>>, visited |-> <<>>]
    ELSE LET first == walk(t, Head(nodes), targetMz, accuracy)
             rest == walkEach(t, Tail(nodes), targetMz, accuracy)
         IN [found |-> first.found \o rest.found,
             visited |-> first.visited \o rest.visited]

findPrecursorNodes(t, targetMz, accuracy) ==
    walkEach(t, RootsOf(t), targetMz, accuracy)

\* collectDescendantNodes(node): each child, followed by its own descendants.
RECURSIVE collectDescendantNodes(_, _)
RECURSIVE collectEach(_, _)
collectDescendantNodes(t, node) == collectEach(t, ChildrenOf(t, node))
collectEachChildOnly(t, children) == children
collectEach(t, children) ==
    IF children = <<>> THEN <<>>
    ELSE <<Head(children)>> \o collectDescendantNodes(t, Head(children))
         \o collectEach(t, Tail(children))

\* Set<TreeNode>: membership is by object reference.
SetOfNodes(seq) == {seq[k] : k \in DOMAIN seq}

RECURSIVE AddDescendants(_, _, _)
AddDescendants(t, precursors, nodeSet) ==
    IF precursors = <<>> THEN nodeSet
    ELSE AddDescendants(t, Tail(precursors),
             nodeSet \cup SetOfNodes(collectDescendantNodes(t, Head(precursors))))

\* The nodes that carry an m/z some descendant of a precursor carries.
buildDescendantNodeSetByMass(t, precursors) ==
    LET byRef == AddDescendants(t, precursors, {})
    IN {n \in NodesOf(t) :
           \E d \in byRef : SetOfNodes(t.molecules[n]) \cap
                            SetOfNodes(t.molecules[d]) # {}}
buildDescendantNodeSet(t, precursors) == AddDescendants(t, precursors, {})

\* ---- inputs ----

\* m/z values: the target 300, 400 at the edge of a 250000 ppm window around
\* it, and 100 far from it (500 appears in the listed forests below).
Masses == {100, 300, 400}
TargetMz == 300
Accuracies == {20, 250000}

RECURSIVE ParentLists(_)
ParentLists(n) ==
    IF n = 0 THEN {<<>>}
    ELSE {Append(p, q) : p \in ParentLists(n - 1), q \in 0..(n - 1)}
RECURSIVE MoleculeLists(_, _)
MoleculeLists(n, choices) ==
    IF n = 0 THEN {<<>>}
    ELSE {Append(m, c) : m \in MoleculeLists(n - 1, choices), c \in choices}

Forests(n, choices) ==
    {[parent |-> p, molecules |-> m] :
        p \in ParentLists(n), m \in MoleculeLists(n, choices)}

\* Every forest of up to maxNodes nodes with one molecule per node.
OneMolecule == {<<m>> : m \in Masses}
PlainForests(maxNodes) == UNION {Forests(n, OneMolecule) : n \in 0..maxNodes}
\* Nodes with no molecule or with two, in forests of up to two nodes.
SeveralMolecules == {<<>>, <<100, 300>>, <<400, 100>>, <<100, 100>>, <<500>>}
MoleculesForests == UNION {Forests(n, SeveralMolecules) : n \in 1..2}
\* root(500) -> A(300) -> A1(100), and root -> B(100).
ExampleRoot == 1
ExampleA == 2
ExampleA1 == 3
ExampleB == 4
ExampleForest ==
    [parent |-> <<NoNode, ExampleRoot, ExampleA, ExampleRoot>>,
     molecules |-> <<(<<500>>), (<<300>>), (<<100>>), (<<100>>)>>]

InputForests(maxNodes) ==
    PlainForests(maxNodes) \cup MoleculesForests \cup {ExampleForest}

InitTree ==
    /\ trees \in InputForests(MaxNodes)
    /\ mz = TargetMz
    /\ ppm \in Accuracies
    /\ precursorNodes = NotCalled
    /\ descendantNodeSet = NotCalled
    /\ IdleLanes
    /\ IdleDwar
    /\ IdleMs3
    /\ IdleRank
    /\ IdlePrint
    /\ IdleLoad
    /\ IdleFrag
    /\ IdleWorkers
    /\ IdleIndex

\* const precursorNodes = findPrecursorNodes(fragments.trees, mz, ppm)
FindPrecursorNodes ==
    /\ precursorNodes.state = "none"
    /\ precursorNodes' = Returned(findPrecursorNodes(trees, mz, ppm))
    /\ UNCHANGED <<trees, mz, ppm, descendantNodeSet>>
    /\ UNCHANGED notTree

\* const descendantNodeSet = buildDescendantNodeSet(precursorNodes)
BuildDescendantNodeSet ==
    /\ precursorNodes.state = "returned"
    /\ descendantNodeSet.state = "none"
    /\ descendantNodeSet' =
           Returned(buildDescendantNodeSet(trees, precursorNodes.value.found))
    /\ UNCHANGED <<trees, mz, ppm, precursorNodes>>
    /\ UNCHANGED notTree

NextTree ==
    \/ FindPrecursorNodes
    \/ BuildDescendantNodeSet

(***************************************************************************)
(* Claims about the fragmentation tree (checked under SpecTree)            *)
(***************************************************************************)

\* The parent-to-child links, read from the parent field alone.
RECURSIVE AncestorsOf(_, _)
AncestorsOf(t, n) ==
    IF t.parent[n] = NoNode THEN {}
    ELSE {t.parent[n]} \cup AncestorsOf(t, t.parent[n])

FoundNodes == SetOfNodes(precursorNodes.value.found)
VisitedNodes == SetOfNodes(precursorNodes.value.visited)

\* C11: a node is in the descendant set only if it is reached from a precursor
\* node through parent-to-child links; a node on another branch with the mass
\* of a genuine descendant is not in the set: for root(500) -> A(300) ->
\* A1(100) and root -> B(100) with target 300 the set holds A1 and not B.
C11_DescendantsByAncestry ==
    descendantNodeSet.state = "returned"
        => /\ \A n \in descendantNodeSet.value :
                  AncestorsOf(trees, n) \cap FoundNodes # {}
           /\ trees = ExampleForest
                  => /\ ExampleA1 \in descendantNodeSet.value
                     /\ ExampleB \notin descendantNodeSet.value

C11_Witness ==
    /\ trees = ExampleForest
    /\ descendantNodeSet.state = "returned"
    /\ descendantNodeSet.value = {ExampleA1}

\* C12: findPrecursorNodes returns exactly the matching nodes that have no
\* matching proper ancestor, each once; no returned node is a descendant of
\* another returned node, and the subtree below a returned node is not
\* searched.
C12_TopmostMatches ==
    precursorNodes.state = "returned"
        => LET Matching == {n \in NodesOf(trees) : NodeMatches(trees, n, mz, ppm)}
               found == precursorNodes.value.found
           IN /\ FoundNodes =
                     {n \in Matching : AncestorsOf(trees, n) \cap Matching = {}}
              /\ Len(found) = Cardinality(FoundNodes)
              /\ \A n \in FoundNodes : AncestorsOf(trees, n) \cap FoundNodes = {}
              /\ \A n \in VisitedNodes : AncestorsOf(trees, n) \cap FoundNodes = {}

\* A chain of three matching nodes: only its root is returned.
C12_Witness ==
    /\ precursorNodes.state = "returned"
    /\ trees.parent = <<NoNode, 1, 2>>
    /\ \A n \in NodesOf(trees) : NodeMatches(trees, n, mz, ppm)
    /\ precursorNodes.value.found = <<1>>
    /\ precursorNodes.value.visited = <<1>>

\* C13: a node is matched exactly when one of its masses m satisfies
\* |m - targetMz| <= targetMz * ppm / 1e6.
C13_AsStated ==
    precursorNodes.state = "returned"
        => \A n \in VisitedNodes :
               n \in FoundNodes
                   <=> \E k \in DOMAIN trees.molecules[n] :
                           Abs(trees.molecules[n][k] - mz) * PpmScale <= mz * ppm

(***************************************************************************)
(* formatTable                                                             *)
(***************************************************************************)

\* The box-drawing characters, each written as an ASCII character:
\* U+2502, U+2500, and the corners and junctions of the three borders.
BoxVertical == "|"
BoxHorizontal == "-"
BoxTop == <<"{", "^", "}">>
BoxMiddle == <<"[", "+", "]">>
BoxBottom == <<"<", "_", ">">>

\* String.prototype.repeat
Repeat(c, n) == [k \in 1..n |-> c]

\* Array.prototype.join with any separator.
RECURSIVE JoinWith(_, _)
JoinWith(parts, sep) ==
    IF Len(parts) = 0 THEN <<>>
    ELSE IF Len(parts) = 1 THEN parts[1]
    ELSE parts[1] \o sep \o JoinWith(Tail(parts), sep)

MaxOf(S) == CHOOSE a \in S : \A b \in S : a >= b

\* row[col] ?? ''
CellAt(row, col) == IF col \in DOMAIN row THEN row[col] ELSE <<>>

\* const widths = headers.map((h, col) => Math.max(h.length, ...rows.map(...)))
ColumnWidths(headers, rows) ==
    [col \in 1..Len(headers) |->
        MaxOf({Len(headers[col])}
              \cup {Len(CellAt(rows[r], col)) : r \in 1..Len(rows)})]

\* text + ' '.repeat(Math.max(0, width - text.length))
Pad(text, width) == text \o Repeat(" ", Max(0, width - Len(text)))

TableBorder(box, widths) ==
    <<box[1]>>
    \o JoinWith([i \in 1..Len(widths) |-> Repeat(BoxHorizontal, widths[i] + 2)],
                <<box[2]>>)
    \o <<box[3]>>

\* cells.map((cell, i) => pad(cell, widths[i] ?? 0)).join(' | ')
formatRow(cells, widths) ==
    <<BoxVertical, " ">>
    \o JoinWith([i \in 1..Len(cells) |->
                    Pad(cells[i], IF i \in DOMAIN widths THEN widths[i] ELSE 0)],
                <<" ", BoxVertical, " ">>)
    \o <<" ", BoxVertical>>

\* The lines of the table, before lines.join('\n').
TableLines(headers, rows) ==
    LET widths == ColumnWidths(headers, rows)
    IN <<TableBorder(BoxTop, widths), formatRow(headers, widths),
         TableBorder(BoxMiddle, widths)>>
       \o [r \in 1..Len(rows) |-> formatRow(rows[r], widths)]
       \o <<TableBorder(BoxBottom, widths)>>

formatTable(headers, rows) == Join(TableLines(headers, rows), NL)

(***************************************************************************)
(* The MS3 analysis: per-adduct processing                                 *)
(***************************************************************************)

\* m/z of the isolated ion and accuracy of its match.
PRECURSOR_MZ == TargetMz
PRECURSOR_PPM == 20
\* The name of the MS3 spectrum file (shortened).
MS3_FILE == <<"m", "s", "3", ".", "j", "d", "x">>
\* const excludeLabels = new Set(['Ionization-K'])
ExcludedLabels == {LabelK}

Ms3Headers ==
    <<<<"a", "d", "d", "u", "c", "t">>,
      <<"s", "p", "e", "c", "t", "r", "u", "m">>,
      <<"m", "o", "d", "e">>,
      <<"c", "o", "s", "i", "n", "e">>,
      <<"t", "a", "n", "i", "m", "o", "t", "o">>,
      <<"n", "b", "C", "o", "m", "m", "o", "n", "P", "e", "a", "k", "s">>,
      <<"n", "b", "P", "e", "a", "k", "s", "1">>,
      <<"n", "b", "P", "e", "a", "k", "s", "2">>>>

\* Number.prototype.toFixed(6) of a score, held in millionths.
Million == 1000000
ToFixed6(v) ==
    LET frac == String(v % Million)
    IN String(v \div Million) \o <<".">> \o Repeat("0", 6 - Len(frac)) \o frac

\* `subtree-${String(PRECURSOR_MZ)}`
SubtreeMode == <<"s", "u", "b", "t", "r", "e", "e", "-">> \o String(PRECURSOR_MZ)

NotApplicable == <<"N", "/", "A">>

\* The row of an adduct whose tree holds no precursor node.
PlaceholderRow(adductLabel) ==
    <<adductLabel, MS3_FILE, SubtreeMode, NotApplicable, NotApplicable,
      String(0), String(0), String(0)>>

\* The row of an adduct whose subtree was scored.
ScoreRow(adductLabel, subtreeScore) ==
    <<adductLabel, MS3_FILE, SubtreeMode,
      ToFixed6(subtreeScore.cosine), ToFixed6(subtreeScore.tanimoto),
      String(subtreeScore.nbCommonPeaks), String(subtreeScore.nbPeaks1),
      String(subtreeScore.nbPeaks2)>>

\* Array.prototype.toSorted((a, b) => a - b) of the members of a Set of numbers.
RECURSIVE SortedAscending(_)
SortedAscending(S) ==
    IF S = {} THEN <<>>
    ELSE LET least == CHOOSE a \in S : \A b \in S : a <= b
         IN <<least>> \o SortedAscending(S \ {least})

\* extractMasses: the unique m/z of the molecules of the nodes, sorted.
extractMasses(t, nodes) ==
    SortedAscending(UNION {SetOfNodes(t.molecules[n]) : n \in nodes})

\* getPositiveIonizationLabels(dwar).filter((l) => !excludeLabels.has(l))
WithoutExcluded(labels, excluded) ==
    SelectSeq(labels, LAMBDA l : l \notin excluded)

\* ---- inputs ----

IonKPositive == [label |-> LabelK, kind |-> IonizationKind, mode |-> PositiveMode]

\* Rule files with no, one, two and three adducts, K among them, an adduct
\* listed twice and rows that are no ionization; and one file without the
\* block boundary.
AdductLists ==
    { <<>>, <<IonKPositive>>, <<IonNa>>, <<IonH, IonNa>>, <<IonNa, IonH>>,
      <<IonNa, IonKPositive, IonH>>, <<IonKPositive, IonH, IonKPositive>>,
      <<IonH, IonH, IonNa>>, <<Reaction, IonNa, EmptyLine, IonH>> }
Ms3Texts ==
    { Text("right", ColumnPropertiesEnd, HeaderLKM, rows, "epilogue") :
        rows \in AdductLists }
    \cup { Text("right", <<" ">> \o ColumnPropertiesEnd, HeaderLKM,
                <<IonNa>>, "epilogue") }

\* What reactionFragmentation returns as fragments.trees.
Ms3Forests == UNION {Forests(n, OneMolecule) : n \in 0..1} \cup {ExampleForest}

\* What scoreSpectrum returns, scores in millionths.
Scores ==
    { [cosine |-> 0, tanimoto |-> 0,
       nbCommonPeaks |-> 0, nbPeaks1 |-> 0, nbPeaks2 |-> 0],
      [cosine |-> 948700, tanimoto |-> 695700,
       nbCommonPeaks |-> 16, nbPeaks1 |-> 23, nbPeaks2 |-> 8] }

InitMs3 ==
    /\ ms3Pc = "start"
    /\ dwar \in Ms3Texts
    /\ ionLabels = <<>>
    /\ adductIdx = 0
    /\ tableRows = <<>>
    /\ svgWrites = 0
    /\ ms3Log = <<>>
    /\ tableContent = <<>>
    /\ trees = <<>>
    /\ mz = PRECURSOR_MZ
    /\ ppm = PRECURSOR_PPM
    /\ precursorNodes = NotCalled
    /\ descendantNodeSet = NotCalled
    /\ keepLabel = <<>>
    /\ labelsOut = <<>>
    /\ textOut = <<>>
    /\ scopedOut = <<>>
    /\ IdleLanes
    /\ IdleRank
    /\ IdlePrint
    /\ IdleLoad
    /\ IdleFrag
    /\ IdleWorkers
    /\ IdleIndex

\* const ionLabels = getPositiveIonizationLabels(dwar).filter(...)
Ms3Start ==
    /\ ms3Pc = "start"
    /\ LET labels == getPositiveIonizationLabels(dwar)
       IN IF labels.state = "thrown"
          THEN /\ ms3Pc' = "thrown"
               /\ UNCHANGED <<ionLabels, adductIdx>>
          ELSE /\ ms3Pc' = "loop"
               /\ ionLabels' = WithoutExcluded(labels.value, ExcludedLabels)
               /\ adductIdx' = 1
    /\ UNCHANGED <<tableRows, svgWrites, ms3Log, tableContent>>
    /\ UNCHANGED <<dwar, treeVars>>
    /\ UNCHANGED notMs3

\* `continue` after the placeholder row: the loop goes on with the next adduct.
AfterNotFoundBreak(idx, n) == n + 1
AfterNotFound(idx, n) == idx + 1

\* One iteration of `for (const adductLabel of ionLabels)`; the body has no
\* await. fragments.trees, the score and whether getFilteredReactions keeps
\* a tree come from the libraries.
Ms3Adduct ==
    /\ ms3Pc = "loop"
    /\ adductIdx <= Len(ionLabels)
    /\ filterDwarByIonization(dwar, ionLabels[adductIdx]).state = "returned"
    /\ \E t \in Ms3Forests, subtreeScore \in Scores, rendered \in BOOLEAN :
         LET adductLabel == ionLabels[adductIdx]
             walked == findPrecursorNodes(t, PRECURSOR_MZ, PRECURSOR_PPM)
             nodeSet == buildDescendantNodeSet(t, walked.found)
             descendantMasses == extractMasses(t, nodeSet)
         IN /\ trees' = t
            /\ precursorNodes' = Returned(walked)
            /\ IF Len(walked.found) = 0
               THEN /\ tableRows' = Append(tableRows, PlaceholderRow(adductLabel))
                    /\ descendantNodeSet' = NotCalled
                    /\ svgWrites' = svgWrites
                    /\ ms3Log' = Append(ms3Log,
                           [adduct |-> adductLabel, found |-> FALSE,
                            masses |-> <<>>, scored |-> FALSE,
                            rendered |-> FALSE])
                    /\ adductIdx' = AfterNotFound(adductIdx, Len(ionLabels))
               ELSE /\ tableRows' =
                           Append(tableRows, ScoreRow(adductLabel, subtreeScore))
                    /\ descendantNodeSet' = Returned(nodeSet)
                    /\ svgWrites' = IF rendered THEN svgWrites + 2 ELSE svgWrites
                    /\ ms3Log' = Append(ms3Log,
                           [adduct |-> adductLabel, found |-> TRUE,
                            masses |-> descendantMasses, scored |-> TRUE,
                            rendered |-> rendered])
                    /\ adductIdx' = adductIdx + 1
    /\ UNCHANGED <<ms3Pc, ionLabels, tableContent>>
    /\ UNCHANGED <<dwar, mz, ppm>>
    /\ UNCHANGED notMs3

\* const tableContent = formatTable(headers, tableRows), written to scores.txt
Ms3Finish ==
    /\ ms3Pc = "loop"
    /\ adductIdx > Len(ionLabels)
    /\ ms3Pc' = "done"
    /\ tableContent' = formatTable(Ms3Headers, tableRows)
    /\ UNCHANGED <<ionLabels, adductIdx, tableRows, svgWrites, ms3Log>>
    /\ UNCHANGED <<dwar, treeVars>>
    /\ UNCHANGED notMs3

NextMs3 ==
    \/ Ms3Start
    \/ Ms3Adduct
    \/ Ms3Finish

(***************************************************************************)
(* Claims about the MS3 analysis (checked under SpecMs3)                   *)
(***************************************************************************)

\* The non-excluded adducts of the rule file, read row by row.
ExpectedAdducts ==
    LET rows == InParts.rows
        names == InParts.columnNames
        adductAt(k) == parseRow(rows[k], names, LabelName)
        counts(k) ==
            /\ Trim(rows[k]) # <<>>
            /\ parseRow(rows[k], names, KindName) = IonizationKind
            /\ Includes(parseRow(rows[k], names, ModeName), PositiveMode)
            /\ adductAt(k) # <<>>
            /\ adductAt(k) \notin ExcludedLabels
        firsts == {k \in 1..Len(rows) :
                     counts(k) /\ \A j \in 1..(k - 1) :
                                     counts(j) => adductAt(j) # adductAt(k)}
    IN [i \in 1..Cardinality(firsts) |->
           adductAt(CHOOSE k \in firsts :
                       Cardinality({j \in firsts : j <= k}) = i)]

\* The lines of the written table that hold a row.
TableBody ==
    LET lines == Split(tableContent, NL)
    IN SubSeq(lines, 4, Len(lines) - 1)

CodeOrder ==
    <<"-", ".", "0", "1", "2", "3", "4", "5", "6", "7", "8", "9", "A", "B",
      "C", "D", "E", "F", "G", "H", "I", "J", "K", "L", "M", "N", "O", "P",
      "Q", "R", "S", "T", "U", "V", "W", "X", "Y", "Z", "_", "a", "b", "c",
      "d", "e", "f", "g", "h", "i", "j", "k", "l", "m", "n", "o", "p", "q",
      "r", "s", "t", "u", "v", "w", "x", "y", "z">>
UpperCase == <<"A", "B", "C", "D", "E", "F", "G", "H", "I", "J", "K", "L",
      "M", "N", "O", "P", "Q", "R", "S", "T", "U", "V", "W", "X", "Y", "Z">>
LowerCase == <<"a", "b", "c", "d", "e", "f", "g", "h", "i", "j", "k", "l",
      "m", "n", "o", "p", "q", "r", "s", "t", "u", "v", "w", "x", "y", "z">>
CodeOf(c) == CHOOSE i \in DOMAIN CodeOrder : CodeOrder[i] = c

\* String.prototype.toLowerCase
ToLowerCaseChar(c) ==
    IF \E i \in DOMAIN UpperCase : UpperCase[i] = c
    THEN LowerCase[CHOOSE i \in DOMAIN UpperCase : UpperCase[i] = c]
    ELSE c
toLowerCase(s) == [k \in DOMAIN s |-> ToLowerCaseChar(s[k])]

\* String.prototype.endsWith
endsWith(s, suffix) ==
    /\ Len(suffix) <= Len(s)
    /\ SubSeq(s, Len(s) - Len(suffix) + 1, Len(s)) = suffix

\* a < b for strings: the first code unit that differs decides, a proper
\* prefix comes first.
StringLess(a, b) ==
    \E k \in 1..(Len(b)) :
        /\ \A j \in 1..(k - 1) : j <= Len(a) /\ a[j] = b[j]
        /\ \/ k > Len(a) /\ k - 1 = Len(a)
           \/ k <= Len(a) /\ CodeOf(a[k]) < CodeOf(b[k])

\* Array.prototype.toSorted() of strings (default comparison).
RECURSIVE SortedStrings(_)
SortedStrings(seq) ==
    IF seq = <<>> THEN <<>>
    ELSE LET k == CHOOSE i \in DOMAIN seq :
                      \A j \in DOMAIN seq :
                          ~StringLess(seq[j], seq[i]) /\ (seq[j] = seq[i] => i <= j)
         IN <<seq[k]>>
            \o SortedStrings(SubSeq(seq, 1, k - 1) \o SubSeq(seq, k + 1, Len(seq)))

\* [...new Set(list)]: the first occurrence of each element, in order.
Unique(seq) ==
    SelectSeq([k \in DOMAIN seq |-> <<k, seq[k]>>],
              LAMBDA e : \A j \in 1..(e[1] - 1) : seq[j] # e[2])
UniqueValues(seq) == [k \in DOMAIN Unique(seq) |-> Unique(seq)[k][2]]

(***************************************************************************)
(* loadCandidates                                                          *)
(***************************************************************************)

MolExtension == <<".", "m", "o", "l">>

\* filename.replace(/\.mol$/i, '')
StripMol(filename) ==
    IF endsWith(toLowerCase(filename), MolExtension)
    THEN SubSeq(filename, 1, Len(filename) - Len(MolExtension))
    ELSE filename

\* The names of the candidates of a directory listing: the .mol files, sorted
\* by file name.
loadCandidates(files) ==
    LET molFiles == SortedStrings(
            SelectSeq(files, LAMBDA f : endsWith(toLowerCase(f), MolExtension)))
    IN [k \in DOMAIN molFiles |-> StripMol(molFiles[k])]

(***************************************************************************)
(* Sorting rows by a score                                                 *)
(***************************************************************************)

\* Array.prototype.toSorted((a, b) => b.key - a.key) is stable: rows are
\* ordered by decreasing key and rows of equal key keep their order. Rows
\* are placed from the last to the first: a row goes behind the placed rows
\* that the comparison puts ahead of it, and ahead of every other one.
StaysAheadOrTie(placedKey, key) == placedKey >= key
StaysAhead(placedKey, key) == placedKey > key

RECURSIVE SortPairs(_)
SortPairs(pairs) ==
    IF pairs = <<>> THEN <<>>
    ELSE LET rest == SortPairs(Tail(pairs))
             x == Head(pairs)
             ahead == {k \in DOMAIN rest : StaysAhead(rest[k][1], x[1])}
             n == IF ahead = {} THEN 0 ELSE MaxOf(ahead)
         IN SubSeq(rest, 1, n) \o <<x>> \o SubSeq(rest, n + 1, Len(rest))

toSortedDescending(rows, keys) ==
    LET sorted == SortPairs([k \in DOMAIN rows |-> <<keys[k], rows[k]>>])
    IN [k \in DOMAIN sorted |-> sorted[k][2]]

\* .toSorted((a, b) => b.cosine - a.cosine)
keptInListOrder(rows) == rows
toSortedByCosine(rows) ==
    toSortedDescending(rows, [k \in DOMAIN rows |-> rows[k].cosine])
\* .toSorted((a, b) => b.tanimoto - a.tanimoto)
toSortedByTanimoto(rows) ==
    toSortedDescending(rows, [k \in DOMAIN rows |-> rows[k].tanimoto])

\* Array.prototype.findIndex for rows marked as the solution: 0-based, -1 for
\* none.
FindSolutionIndex(rows) ==
    LET hits == {k \in DOMAIN rows : rows[k].isSolution}
    IN IF hits = {} THEN 0 - 1
       ELSE (CHOOSE k \in hits : \A j \in hits : k <= j) - 1

(***************************************************************************)
(* The multi-candidate ranking script                                      *)
(***************************************************************************)

\* String(n) for a number that may be negative.
StringOf(n) == IF n < 0 THEN <<"-">> \o String(0 - n) ELSE String(n)

\* The mark of the solution's row (U+2713, written as an ASCII character).
CheckMark == "#"

RankHeaders ==
    <<<<"r", "a", "n", "k">>,
      <<"c", "a", "n", "d", "i", "d", "a", "t", "e">>,
      <<"c", "o", "s", "i", "n", "e">>,
      <<"t", "a", "n", "i", "m", "o", "t", "o">>,
      <<"n", "b", "C", "o", "m", "m", "o", "n", "P", "e", "a", "k", "s">>,
      <<"n", "b", "P", "e", "a", "k", "s", "1">>,
      <<"n", "b", "P", "e", "a", "k", "s", "2">>,
      <<"s", "o", "l", "u", "t", "i", "o", "n">>>>
SummaryHeaders ==
    <<<<"m", "o", "l", "e", "c", "u", "l", "e">>,
      <<"a", "d", "d", "u", "c", "t">>,
      <<"s", "p", "e", "c", "t", "r", "u", "m">>,
      <<"r", "a", "n", "k">>,
      <<"t", "o", "t", "a", "l">>,
      <<"s", "o", "l", "u", "t", "i", "o", "n", "C", "o", "s", "i", "n", "e">>,
      <<"b", "e", "s", "t", "C", "a", "n", "d", "i", "d", "a", "t", "e">>,
      <<"b", "e", "s", "t", "C", "o", "s", "i", "n", "e">>>>

\* The (datum, adduct, spectrum) combinations in the order of the nested
\* for..of loops.
RECURSIVE Flatten(_)
Flatten(lists) ==
    IF lists = <<>> THEN <<>> ELSE Head(lists) \o Flatten(Tail(lists))
Combinations(entries, labels) ==
    Flatten([d \in DOMAIN entries |->
        Flatten([a \in DOMAIN labels |->
            [s \in DOMAIN entries[d].spectra |->
                [molecule |-> entries[d].folderName, adduct |-> labels[a],
                 spectrum |-> entries[d].spectra[s]]]])])

\* candidates.map((c) => ({ candidate: c.name, ...score, isSolution }))
ScoredRows(names, moleculeName, scores) ==
    [k \in DOMAIN names |->
        [candidate |-> names[k],
         cosine |-> scores[k].cosine, tanimoto |-> scores[k].tanimoto,
         nbCommonPeaks |-> scores[k].nbCommonPeaks,
         nbPeaks1 |-> scores[k].nbPeaks1, nbPeaks2 |-> scores[k].nbPeaks2,
         isSolution |-> names[k] = moleculeName]]

\* const solutionRank = solutionIdx === -1 ? -1 : solutionIdx + 1
SolutionRankPlusOne(solutionIdx) == solutionIdx + 1
SolutionRank(solutionIdx) == IF solutionIdx = 0 - 1 THEN 0 - 1 ELSE solutionIdx + 1

SummaryRow(combo, rows) ==
    LET solutionIdx == FindSolutionIndex(rows)
    IN [molecule |-> combo.molecule, adduct |-> combo.adduct,
        spectrum |-> combo.spectrum,
        solutionRank |-> SolutionRank(solutionIdx),
        total |-> Len(rows),
        solutionCosine |-> IF solutionIdx >= 0 THEN rows[solutionIdx + 1].cosine ELSE 0,
        bestCandidate |-> IF Len(rows) > 0 THEN rows[1].candidate ELSE <<>>,
        bestCosine |-> IF Len(rows) > 0 THEN rows[1].cosine ELSE 0]

RankRows(rows) ==
    [i \in DOMAIN rows |->
        <<String(i), rows[i].candidate, ToFixed6(rows[i].cosine),
          ToFixed6(rows[i].tanimoto), String(rows[i].nbCommonPeaks),
          String(rows[i].nbPeaks1), String(rows[i].nbPeaks2),
          IF rows[i].isSolution THEN <<" ", " ", CheckMark>> ELSE <<>> >>]

\* The content of ranking_<adduct>_<spectrum>.txt
RankContent(combo, rows) ==
    Join(<<<<"R", "a", "n", "k", "i", "n", "g", ":", " ">> \o combo.molecule \o <<" ", "/", " ">> \o combo.adduct
             \o <<" ", "/", " ">> \o combo.spectrum,
           <<"S", "o", "l", "u", "t", "i", "o", "n", " ", "r", "a", "n", "k", ":", " ">>
             \o StringOf(SolutionRank(FindSolutionIndex(rows)))
             \o <<" ", "/", " ">> \o String(Len(rows)),
           <<>>,
           formatTable(RankHeaders, RankRows(rows))>>, NL)

SummaryTableRows(rows) ==
    [k \in DOMAIN rows |->
        <<rows[k].molecule, rows[k].adduct, rows[k].spectrum,
          StringOf(rows[k].solutionRank), String(rows[k].total),
          ToFixed6(rows[k].solutionCosine), rows[k].bestCandidate,
          ToFixed6(rows[k].bestCosine)>>]

\* ---- inputs ----

\* What scoreSpectrum returns for a candidate, scores in millionths.
RankScores ==
    Scores \cup { [cosine |-> 500000, tanimoto |-> 800000,
                   nbCommonPeaks |-> 5, nbPeaks1 |-> 23, nbPeaks2 |-> 8] }

NameA == <<"a">>
NameB == <<"b">>
NameC == <<"c">>
NameZ == <<"z">>
FileOf(name) == name \o MolExtension
Spectrum1 == <<"m", "s", "2", "_", "1", ".", "j", "d", "x">>
Spectrum2 == <<"m", "s", "2", "_", "2", ".", "j", "d", "x">>

\* A run of the script: the listing of candidates/ in the order readdir gives
\* it, the data entries, and the adduct labels of the fragmentation results.
RankRuns ==
    { [files |-> <<FileOf(NameB), <<"n", "o", "t", "e", "s", ".", "t", "x", "t">>, <<"a", ".", "M", "O", "L">>, FileOf(NameC)>>,
       entries |-> <<[folderName |-> NameA, spectra |-> <<Spectrum1>>]>>,
       labels |-> <<LabelNa>>],
      [files |-> <<FileOf(NameC), FileOf(NameB), FileOf(NameA)>>,
       entries |-> <<[folderName |-> NameZ, spectra |-> <<Spectrum1>>]>>,
       labels |-> <<LabelH>>],
      [files |-> <<FileOf(NameB), FileOf(NameA)>>,
       entries |-> <<[folderName |-> NameB, spectra |-> <<Spectrum1>>],
                     [folderName |-> NameZ, spectra |-> <<Spectrum2>>]>>,
       labels |-> <<LabelNa, LabelH>>],
      [files |-> <<FileOf(NameA)>>,
       entries |-> <<[folderName |-> NameA, spectra |-> <<Spectrum1, Spectrum2>>],
                     [folderName |-> NameB, spectra |-> <<>>]>>,
       labels |-> <<LabelNa>>],
      [files |-> <<<<"B", ".", "m", "o", "l">>, FileOf(NameA)>>,
       entries |-> <<[folderName |-> NameA, spectra |-> <<Spectrum1>>]>>,
       labels |-> <<LabelNa>>],
      [files |-> <<<<"r", "e", "a", "d", "m", "e", ".", "m", "d">>>>,
       entries |-> <<[folderName |-> NameA, spectra |-> <<Spectrum1>>]>>,
       labels |-> <<LabelNa>>] }

\* allMasses.map((e) => e.label): one entry per candidate and label,
\* candidate-major.
AllMassesLabels(names, labels) ==
    Flatten([c \in DOMAIN names |-> labels])

InitRank ==
    /\ rankPc = "start"
    /\ rankInput \in RankRuns
    /\ candidates = <<>>
    /\ data = <<>>
    /\ adductLabels = <<>>
    /\ comboIdx = 0
    /\ scored = <<>>
    /\ summaryRows = <<>>
    /\ rankContent = <<>>
    /\ summaryContent = <<>>
    /\ IdleLanes
    /\ IdleDwar
    /\ IdleTree
    /\ IdleMs3
    /\ IdlePrint
    /\ IdleLoad
    /\ IdleFrag
    /\ IdleWorkers
    /\ IdleIndex

\* Loading and fragmenting: candidates = loadCandidates(...), and
\* adductLabels = [...new Set(allMasses.map((e) => e.label))].toSorted()
RankStart ==
    /\ rankPc = "start"
    /\ rankPc' = "loop"
    /\ candidates' = loadCandidates(rankInput.files)
    /\ data' = rankInput.entries
    /\ adductLabels' =
           SortedStrings(UniqueValues(AllMassesLabels(candidates', rankInput.labels)))
    /\ UNCHANGED <<rankInput, comboIdx, scored, summaryRows, rankContent,
                   summaryContent>>
    /\ UNCHANGED notRank

\* One pass through the body of the innermost loop, up to its awaited
\* writeFile; the scores come from scoreSpectrum.
RankCombination ==
    /\ rankPc = "loop"
    /\ comboIdx < Len(Combinations(data, adductLabels))
    /\ \E scores \in [DOMAIN candidates -> RankScores] :
         LET combo == Combinations(data, adductLabels)[comboIdx + 1]
             rows == toSortedByCosine(ScoredRows(candidates, combo.molecule, scores))
         IN /\ scored' = rows
            /\ summaryRows' = Append(summaryRows, SummaryRow(combo, rows))
            /\ rankContent' = RankContent(combo, rows)
    /\ comboIdx' = comboIdx + 1
    /\ UNCHANGED <<rankPc, rankInput, candidates, data, adductLabels,
                   summaryContent>>
    /\ UNCHANGED notRank

\* formatTable(summaryHeaders, summaryTableRows), written to summary.txt
RankFinish ==
    /\ rankPc = "loop"
    /\ comboIdx = Len(Combinations(data, adductLabels))
    /\ rankPc' = "done"
    /\ summaryContent' = formatTable(SummaryHeaders, SummaryTableRows(summaryRows))
    /\ UNCHANGED <<rankInput, candidates, data, adductLabels, comboIdx, scored,
                   summaryRows, rankContent>>
    /\ UNCHANGED notRank

NextRank ==
    \/ RankStart
    \/ RankCombination
    \/ RankFinish

(***************************************************************************)
(* Claims about the ranking script (checked under SpecRank)                *)
(***************************************************************************)

LastSummaryRow == summaryRows[Len(summaryRows)]
RankedOne == rankPc \in {"loop", "done"} /\ comboIdx >= 1

\* Position of a name in a list of distinct names.
PositionIn(names, name) == CHOOSE k \in DOMAIN names : names[k] = name

NonIncreasingCosine(rows) ==
    \A i \in DOMAIN rows : \A j \in DOMAIN rows :
        i < j => rows[i].cosine >= rows[j].cosine

\* C14: for every (molecule, adduct, spectrum) combination, solutionRank is
\* the 1-based position, in the candidate rows sorted descending by cosine,
\* of the row whose candidate name is the molecule's folder name, and -1 when
\* no candidate has that name.
C14_SolutionRank ==
    RankedOne
        => LET combo == Combinations(data, adductLabels)[comboIdx]
               hits == {k \in DOMAIN scored : scored[k].candidate = combo.molecule}
           IN /\ Len(summaryRows) = comboIdx
              /\ LastSummaryRow.molecule = combo.molecule
              /\ LastSummaryRow.adduct = combo.adduct
              /\ LastSummaryRow.spectrum = combo.spectrum
              /\ NonIncreasingCosine(scored)
              /\ combo.molecule \notin SetOfNodes(candidates)
                     <=> LastSummaryRow.solutionRank = 0 - 1
              /\ hits # {}
                     => /\ LastSummaryRow.solutionRank \in hits
                        /\ \A k \in hits : LastSummaryRow.solutionRank <= k

\* The solution is the second of three rows, and a run where it is no
\* candidate.
C14_Witness ==
    /\ RankedOne
    /\ Len(scored) = 3
    /\ LastSummaryRow.solutionRank = 2
    /\ scored[2].candidate = LastSummaryRow.molecule
    /\ scored[1].cosine > scored[2].cosine

\* C16: each ranking holds exactly one row per candidate, in non-increasing
\* order of cosine; candidates of equal cosine keep the relative order of the
\* candidate list.
C16_StableRanking ==
    RankedOne
        => /\ Len(scored) = Len(candidates)
           /\ \A c \in DOMAIN candidates :
                  Cardinality({k \in DOMAIN scored :
                                  scored[k].candidate = candidates[c]}) = 1
           /\ NonIncreasingCosine(scored)
           /\ \A i \in DOMAIN scored : \A j \in DOMAIN scored :
                  (i < j /\ scored[i].cosine = scored[j].cosine)
                      => PositionIn(candidates, scored[i].candidate)
                           < PositionIn(candidates, scored[j].candidate)
           /\ Len(Split(rankContent, NL)) = Len(candidates) + 7

\* The last candidate scores best and the first two tie behind it.
C16_Witness ==
    /\ RankedOne
    /\ candidates = <<NameA, NameB, NameC>>
    /\ scored[1].candidate = NameC
    /\ scored[2].candidate = NameA
    /\ scored[3].candidate = NameB
    /\ scored[2].cosine = scored[3].cosine

(***************************************************************************)
(* printRanks: summaries and pickBest                                      *)
(***************************************************************************)

\* Tuples of numbers in dictionary order.
TupleLess(a, b) ==
    \E k \in 1..Len(b) :
        /\ \A j \in 1..(k - 1) : j <= Len(a) /\ a[j] = b[j]
        /\ \/ k - 1 = Len(a)
           \/ k <= Len(a) /\ a[k] < b[k]

\* A stable sort by increasing key: pairs <<key, row>> are placed from the
\* last to the first, each behind the placed pairs of smaller key.
RECURSIVE SortPairsAscending(_)
SortPairsAscending(pairs) ==
    IF pairs = <<>> THEN <<>>
    ELSE LET rest == SortPairsAscending(Tail(pairs))
             x == Head(pairs)
             ahead == {k \in DOMAIN rest : TupleLess(rest[k][1], x[1])}
             n == IF ahead = {} THEN 0 ELSE MaxOf(ahead)
         IN SubSeq(rest, 1, n) \o <<x>> \o SubSeq(rest, n + 1, Len(rest))
StableSortAscending(rows, keys) ==
    LET sorted == SortPairsAscending([k \in DOMAIN rows |-> <<keys[k], rows[k]>>])
    IN [k \in DOMAIN sorted |-> sorted[k][2]]

\* a.molecule.localeCompare(b.molecule), for names in lower-case letters.
MoleculeKey(name) == [k \in DOMAIN name |-> CodeOf(name[k])]

\* cosineRank: cosineIdx + 1
RankFromIndex(idx) == idx + 1

\* The SummaryEntry of one ranking file.
SummaryEntry(r) ==
    LET byCosine == toSortedByCosine(r.candidates)
        cosineIdx == FindSolutionIndex(byCosine)
        byTanimoto == toSortedByTanimoto(r.candidates)
        tanimotoIdx == FindSolutionIndex(byTanimoto)
    IN [molecule |-> r.molecule, adduct |-> r.adduct, spectrum |-> r.spectrum,
        cosineRank |-> RankFromIndex(cosineIdx),
        cosineScore |-> IF cosineIdx # 0 - 1 THEN byCosine[cosineIdx + 1].cosine
                        ELSE 0,
        cosineBest |-> IF Len(byCosine) > 0 THEN byCosine[1].candidate ELSE <<>>,
        cosineBestScore |-> IF Len(byCosine) > 0 THEN byCosine[1].cosine ELSE 0,
        tanimotoRank |-> RankFromIndex(tanimotoIdx),
        tanimotoScore |-> IF tanimotoIdx # 0 - 1
                          THEN byTanimoto[tanimotoIdx + 1].tanimoto ELSE 0,
        tanimotoBest |-> IF Len(byTanimoto) > 0 THEN byTanimoto[1].candidate
                         ELSE <<>>,
        tanimotoBestScore |-> IF Len(byTanimoto) > 0 THEN byTanimoto[1].tanimoto
                              ELSE 0,
        total |-> Len(r.candidates)]

\* if (e[bestScoreKey] <= 0) continue
Retained(entries, bestScoreKey) ==
    SelectSeq(entries, LAMBDA e : ~(e[bestScoreKey] <= 0))

\* list.sort((a, b) => a[rankKey] - b[rankKey] || b[scoreKey] - a[scoreKey])
SortKeyRankOnly(e, rankKey, scoreKey) == <<e[rankKey]>>
SortKey(e, rankKey, scoreKey) == <<e[rankKey], 0 - e[scoreKey]>>

\* The lists of byMolecule, in the order their keys were first set.
Groups(kept) ==
    LET molecules == UniqueValues([k \in DOMAIN kept |-> kept[k].molecule])
    IN [g \in DOMAIN molecules |->
           SelectSeq(kept, LAMBDA e : e.molecule = molecules[g])]

pickBest(entries, rankKey, scoreKey, bestScoreKey) ==
    LET groups == Groups(Retained(entries, bestScoreKey))
        sortedList(list) ==
            StableSortAscending(list,
                [k \in DOMAIN list |-> SortKey(list[k], rankKey, scoreKey)])
        best == [g \in DOMAIN groups |-> sortedList(groups[g])[1]]
    IN StableSortAscending(best,
           [k \in DOMAIN best |-> MoleculeKey(best[k].molecule)])

CosineHeaders ==
    <<<<"m", "o", "l", "e", "c", "u", "l", "e">>,
      <<"a", "d", "d", "u", "c", "t">>,
      <<"s", "p", "e", "c", "t", "r", "u", "m">>,
      <<"r", "a", "n", "k">>,
      <<"t", "o", "t", "a", "l">>,
      <<"s", "o", "l", "u", "t", "i", "o", "n", "C", "o", "s", "i", "n", "e">>,
      <<"b", "e", "s", "t", "C", "a", "n", "d", "i", "d", "a", "t", "e">>,
      <<"b", "e", "s", "t", "C", "o", "s", "i", "n", "e">>>>
TanimotoHeaders ==
    <<<<"m", "o", "l", "e", "c", "u", "l", "e">>,
      <<"a", "d", "d", "u", "c", "t">>,
      <<"s", "p", "e", "c", "t", "r", "u", "m">>,
      <<"r", "a", "n", "k">>,
      <<"t", "o", "t", "a", "l">>,
      <<"s", "o", "l", "u", "t", "i", "o", "n", "T", "a", "n", "i", "m", "o", "t", "o">>,
      <<"b", "e", "s", "t", "C", "a", "n", "d", "i", "d", "a", "t", "e">>,
      <<"b", "e", "s", "t", "T", "a", "n", "i", "m", "o", "t", "o">>>>

CosineRows(best) ==
    [k \in DOMAIN best |->
        <<best[k].molecule, best[k].adduct, best[k].spectrum,
          StringOf(best[k].cosineRank), String(best[k].total),
          ToFixed6(best[k].cosineScore), best[k].cosineBest,
          ToFixed6(best[k].cosineBestScore)>>]
TanimotoRows(best) ==
    [k \in DOMAIN best |->
        <<best[k].molecule, best[k].adduct, best[k].spectrum,
          StringOf(best[k].tanimotoRank), String(best[k].total),
          ToFixed6(best[k].tanimotoScore), best[k].tanimotoBest,
          ToFixed6(best[k].tanimotoBestScore)>>]

\* The title lines (the rule of U+2550 is written with '=').
CosineTitle == <<"=", "=", "=", " ", "S", "o", "l", "u", "t", "i", "o", "n", " ", "r", "a", "n", "k", "i", "n", "g", " ", "b", "y", " ", "C", "O", "S", "I", "N", "E", " ", "=", "=", "=">>
TanimotoTitle == <<"=", "=", "=", " ", "S", "o", "l", "u", "t", "i", "o", "n", " ", "r", "a", "n", "k", "i", "n", "g", " ", "b", "y", " ", "T", "A", "N", "I", "M", "O", "T", "O", " ", "=", "=", "=">>
SummaryContent(title, headers, rows) ==
    title \o <<NL, NL>> \o formatTable(headers, rows) \o <<NL>>

\* ---- inputs ----

\* The rows of a ranking file, as the ranking script writes them: one or two
\* candidates in decreasing order of cosine, at most one of them marked as
\* the solution (mark = 0 for none).
CandidateRow(i, name, score, mark) ==
    [rank |-> i, candidate |-> name, cosine |-> score.cosine,
     tanimoto |-> score.tanimoto, nbCommonPeaks |-> score.nbCommonPeaks,
     isSolution |-> mark = i]
RankingBodies ==
    { <<CandidateRow(1, NameA, s, mark)>> : s \in RankScores, mark \in 0..1 }
    \cup { <<CandidateRow(1, NameA, x[1], x[3]), CandidateRow(2, NameB, x[2], x[3])>> :
             x \in {y \in RankScores \X RankScores \X (0..2) :
                       y[1].cosine > y[2].cosine /\ y[2].cosine > 0} }

\* The ranking files of results/: two spectra of molecule a, one of b.
RankingKeys ==
    << [molecule |-> NameA, adduct |-> LabelNa, spectrum |-> Spectrum1],
       [molecule |-> NameA, adduct |-> LabelNa, spectrum |-> Spectrum2],
       [molecule |-> NameB, adduct |-> LabelNa, spectrum |-> Spectrum1] >>

\* allRankings after the sort by molecule, adduct and spectrum: any of the
\* files, each with any body.
RankingLists(bodies) ==
    UNION { { [k \in 1..Cardinality(present) |->
                 LET key == RankingKeys[CHOOSE i \in present :
                                Cardinality({j \in present : j <= i}) = k]
                 IN [molecule |-> key.molecule, adduct |-> key.adduct,
                     spectrum |-> key.spectrum, candidates |-> body[k]]] :
              body \in [1..Cardinality(present) -> bodies] } :
            present \in SUBSET DOMAIN RankingKeys }

InitPrint ==
    /\ printPc = "start"
    /\ allRankings \in RankingLists(RankingBodies)
    /\ summaries = <<>>
    /\ bestCosine = <<>>
    /\ bestTanimoto = <<>>
    /\ cosineContent = <<>>
    /\ tanimotoContent = <<>>
    /\ IdleLanes
    /\ IdleDwar
    /\ IdleTree
    /\ IdleMs3
    /\ IdleRank
    /\ IdleLoad
    /\ IdleFrag
    /\ IdleWorkers
    /\ IdleIndex

\* const summaries = allRankings.map(...)
Summarise ==
    /\ printPc = "start"
    /\ printPc' = "summarised"
    /\ summaries' = [k \in DOMAIN allRankings |-> SummaryEntry(allRankings[k])]
    /\ UNCHANGED <<allRankings, bestCosine, bestTanimoto, cosineContent,
                   tanimotoContent>>
    /\ UNCHANGED notPrint

\* const bestCosine = pickBest(...), written to summary_cosine.txt
PrintCosine ==
    /\ printPc = "summarised"
    /\ printPc' = "cosine"
    /\ bestCosine' =
           pickBest(summaries, "cosineRank", "cosineScore", "cosineBestScore")
    /\ cosineContent' =
           SummaryContent(CosineTitle, CosineHeaders, CosineRows(bestCosine'))
    /\ UNCHANGED <<allRankings, summaries, bestTanimoto, tanimotoContent>>
    /\ UNCHANGED notPrint

\* const bestTanimoto = pickBest(...), written to summary_tanimoto.txt
PrintTanimoto ==
    /\ printPc = "cosine"
    /\ printPc' = "done"
    /\ bestTanimoto' =
           pickBest(summaries, "tanimotoRank", "tanimotoScore", "tanimotoBestScore")
    /\ tanimotoContent' =
           SummaryContent(TanimotoTitle, TanimotoHeaders, TanimotoRows(bestTanimoto'))
    /\ UNCHANGED <<allRankings, summaries, bestCosine, cosineContent>>
    /\ UNCHANGED notPrint

NextPrint ==
    \/ Summarise
    \/ PrintCosine
    \/ PrintTanimoto

\* ---- claims on printRanks ----

\* The 1-based positions of the rows marked as the solution in a sorted list.
SolutionPositions(sortedRows) ==
    {i \in DOMAIN sortedRows : sortedRows[i].isSolution}
StatedRank(sortedRows) ==
    IF SolutionPositions(sortedRows) = {} THEN 0 - 1
    ELSE CHOOSE i \in SolutionPositions(sortedRows) :
             \A j \in SolutionPositions(sortedRows) : i <= j

\* C15: for every parsed ranking file and for each metric, the reported
\* solution rank is the 1-based position of the solution row among the
\* candidates sorted descending by that metric, and -1 when no row is marked
\* as the solution.
C15_AsStated ==
    printPc # "start" =>
        \A k \in DOMAIN summaries :
            /\ summaries[k].cosineRank =
                   StatedRank(toSortedByCosine(allRankings[k].candidates))
            /\ summaries[k].tanimotoRank =
                   StatedRank(toSortedByTanimoto(allRankings[k].candidates))

EntriesOf(entries) == {entries[k] : k \in DOMAIN entries}
Competitors(entries, e, bestScoreKey) ==
    {x \in EntriesOf(entries) : x.molecule = e.molecule /\ x[bestScoreKey] > 0}
PickBestHolds(entries, result, rankKey, scoreKey, bestScoreKey) ==
    /\ \A k \in DOMAIN result :
           /\ result[k] \in EntriesOf(entries)
           /\ result[k][bestScoreKey] > 0
           /\ \A x \in Competitors(entries, result[k], bestScoreKey) :
                  \/ result[k][rankKey] < x[rankKey]
                  \/ /\ result[k][rankKey] = x[rankKey]
                     /\ result[k][scoreKey] >= x[scoreKey]
    /\ \A e \in EntriesOf(entries) :
           Cardinality({k \in DOMAIN result : result[k].molecule = e.molecule})
               = IF Competitors(entries, e, bestScoreKey) = {} THEN 0 ELSE 1

\* C17: pickBest returns, for each molecule with an entry of best score > 0,
\* exactly one entry: among the molecule's entries with best score > 0 one of
\* lowest solution rank and, among those, of highest solution score; no
\* returned entry has best score <= 0, and a molecule whose entries all have
\* best score <= 0 has no row.
C17_PickBest ==
    /\ printPc \in {"cosine", "done"} =>
           PickBestHolds(summaries, bestCosine,
                         "cosineRank", "cosineScore", "cosineBestScore")
    /\ printPc = "done" =>
           PickBestHolds(summaries, bestTanimoto,
                         "tanimotoRank", "tanimotoScore", "tanimotoBestScore")

\* Two spectra of one molecule tie in rank, the later one with the higher
\* solution score, next to a molecule whose only entry has best score 0.
C17_Witness ==
    /\ printPc = "done"
    /\ \E i, j \in DOMAIN summaries :
           /\ i < j
           /\ summaries[i].molecule = summaries[j].molecule
           /\ summaries[i].cosineBestScore > 0
           /\ summaries[i].cosineRank = summaries[j].cosineRank
           /\ summaries[i].cosineScore < summaries[j].cosineScore
           /\ bestCosine[1] = summaries[j]
    /\ \E k \in DOMAIN summaries :
           /\ summaries[k].cosineBestScore <= 0
           /\ \A b \in DOMAIN bestCosine :
                  bestCosine[b].molecule # summaries[k].molecule

(***************************************************************************)
(* loadData                                                                *)
(***************************************************************************)

\* Most sub-folders of basePath explored.
MaxFolders == 2

\* String.prototype.includes
includes(s, sub) ==
    \E i \in 1..(Len(s) - Len(sub) + 1) : SubSeq(s, i, i + Len(sub) - 1) = sub

JdxExtension == <<".", "j", "d", "x">>
Ms2Marker == <<"m", "s", "2">>

\* files.filter((file) => file.toLowerCase().endsWith('.mol'))
MolfilesOf(files) ==
    SelectSeq(files, LAMBDA file : endsWith(toLowerCase(file.name), MolExtension))
\* the .jdx files whose lower-cased name includes 'ms2'
JcampNamesOf(files) ==
    SelectSeq(SelectSeq(files,
                  LAMBDA file : endsWith(toLowerCase(file.name), JdxExtension)),
              LAMBDA file : includes(toLowerCase(file.name), Ms2Marker))

\* What a folder's function returns when it skips the folder.
Null == [null |-> TRUE]
IsNull(datum) == "null" \in DOMAIN datum
\* new Error(`No spectrum data found in ${name}`)
NoSpectrumData(name) == <<"Error", name>>

Awaiting(at) == [state |-> at, value |-> Empty]
FulfilledWith(v) == [state |-> "fulfilled", value |-> v]
RejectedWith(e) == [state |-> "rejected", value |-> e]

\* Promise.all over a sequence of promises: rejected with the reason of a
\* rejected one, fulfilled once every one is fulfilled.
AnyRejected(promises) == \E k \in DOMAIN promises : promises[k].state = "rejected"
AllFulfilled(promises) == \A k \in DOMAIN promises : promises[k].state = "fulfilled"
ValuesOf(promises) == [k \in DOMAIN promises |-> promises[k].value]

\* { folderName: folder, molfile, molecule, spectra }
MoleculeData(folder, spectra) ==
    [folderName |-> folder.name, molfile |-> MolfilesOf(folder.files)[1].name,
     spectra |-> spectra]

\* results.filter((datum) => datum !== null)
NotNull(values) == SelectSeq(values, LAMBDA datum : ~IsNull(datum))

\* ---- inputs ----

\* A file: its name, and whether its converted content has x and y data.
File(name, hasData) == [name |-> name, data |-> hasData]
FileSets ==
    { <<File(<<"a", ".", "m", "o", "l">>, FALSE), File(<<"m", "s", "2", ".", "j", "d", "x">>, TRUE)>>,
      <<File(<<"a", ".", "m", "o", "l">>, FALSE), File(<<"m", "s", "2", ".", "j", "d", "x">>, FALSE)>>,
      <<File(<<"m", "s", "2", ".", "j", "d", "x">>, TRUE)>>,
      <<File(<<"a", ".", "m", "o", "l">>, FALSE), File(<<"b", ".", "M", "O", "L">>, FALSE), File(<<"m", "s", "2", ".", "j", "d", "x">>, FALSE)>>,
      <<File(<<"a", ".", "M", "O", "L">>, FALSE), File(<<"m", "s", "1", ".", "j", "d", "x">>, FALSE), File(<<"M", "S", "2", ".", "J", "D", "X">>, TRUE)>>,
      <<File(<<"a", ".", "m", "o", "l">>, FALSE), File(<<"m", "s", "2", ".", "j", "d", "x">>, TRUE), File(<<"b", "_", "m", "s", "2", ".", "j", "d", "x">>, FALSE)>>,
      <<File(<<"a", ".", "m", "o", "l">>, FALSE)>> }
FolderName(k) == <<"f">> \o String(k)
FolderLists(maxFolders) ==
    UNION { { [k \in 1..n |-> [name |-> FolderName(k), files |-> fs[k]]] :
              fs \in [1..n -> FileSets] } : n \in 0..maxFolders }

InitLoad ==
    /\ loadPc = "start"
    /\ folders \in FolderLists(MaxFolders)
    /\ folderPromise = <<>>
    /\ spectrumPromise = <<>>
    /\ loaded = Pending
    /\ IdleLanes
    /\ IdleDwar
    /\ IdleTree
    /\ IdleMs3
    /\ IdleRank
    /\ IdlePrint
    /\ IdleFrag
    /\ IdleWorkers
    /\ IdleIndex

\* readdir(basePath) returned: folders.map(async ...) calls every folder's
\* function, which runs up to its first await.
LoadMap ==
    /\ loadPc = "start"
    /\ loadPc' = "mapped"
    /\ folderPromise' = [f \in DOMAIN folders |-> Awaiting("readdir")]
    /\ spectrumPromise' = [f \in DOMAIN folders |-> <<>>]
    /\ UNCHANGED <<folders, loaded>>
    /\ UNCHANGED notLoad

\* readdir(folderPath) returned: the folder is skipped unless it has exactly
\* one .mol file.
FolderReaddir(f) ==
    /\ loadPc = "mapped"
    /\ folderPromise[f].state = "readdir"
    /\ folderPromise' =
           [folderPromise EXCEPT ![f] =
               IF Len(MolfilesOf(folders[f].files)) # 1
               THEN FulfilledWith(Null) ELSE Awaiting("molfile")]
    /\ UNCHANGED <<loadPc, folders, spectrumPromise, loaded>>
    /\ UNCHANGED notLoad

\* readFile(molfile) returned: jcampNames.map(async ...) calls the function
\* of every MS2 spectrum file.
FolderMolfile(f) ==
    /\ loadPc = "mapped"
    /\ folderPromise[f].state = "molfile"
    /\ folderPromise' = [folderPromise EXCEPT ![f] = Awaiting("spectra")]
    /\ spectrumPromise' =
           [spectrumPromise EXCEPT ![f] =
               [k \in DOMAIN JcampNamesOf(folders[f].files) |->
                   Awaiting("readFile")]]
    /\ UNCHANGED <<loadPc, folders, loaded>>
    /\ UNCHANGED notLoad

\* readFile(jcamp) returned: the function throws when the converted file has
\* no x or y data, and returns the peak-picked spectrum otherwise.
SpectrumRead(f, k) ==
    /\ loadPc = "mapped"
    /\ spectrumPromise[f][k].state = "readFile"
    /\ LET file == JcampNamesOf(folders[f].files)[k]
       IN spectrumPromise' =
              [spectrumPromise EXCEPT ![f][k] =
                  IF ~file.data THEN RejectedWith(NoSpectrumData(file.name))
                  ELSE FulfilledWith([name |-> file.name])]
    /\ UNCHANGED <<loadPc, folders, folderPromise, loaded>>
    /\ UNCHANGED notLoad

\* await Promise.all(jcampNames.map(...)) of one folder settles: the folder's
\* function throws what the await throws, or returns its datum.
FolderSpectra(f) ==
    /\ loadPc = "mapped"
    /\ folderPromise[f].state = "spectra"
    /\ \/ /\ AnyRejected(spectrumPromise[f])
          /\ \E k \in DOMAIN spectrumPromise[f] :
                 /\ spectrumPromise[f][k].state = "rejected"
                 /\ folderPromise' =
                        [folderPromise EXCEPT ![f] =
                            RejectedWith(spectrumPromise[f][k].value)]
       \/ /\ AllFulfilled(spectrumPromise[f])
          /\ folderPromise' =
                 [folderPromise EXCEPT ![f] =
                     FulfilledWith(MoleculeData(folders[f],
                                            ValuesOf(spectrumPromise[f])))]
    /\ UNCHANGED <<loadPc, folders, spectrumPromise, loaded>>
    /\ UNCHANGED notLoad

\* await Promise.all(folders.map(...)) settles: loadData throws what the
\* await throws, or returns the data that are not null.
LoadSettle ==
    /\ loadPc = "mapped"
    /\ loaded.state = "pending"
    /\ \/ /\ AnyRejected(folderPromise)
          /\ \E f \in DOMAIN folderPromise :
                 /\ folderPromise[f].state = "rejected"
                 /\ loaded' = [state |-> "rejected",
                               value |-> folderPromise[f].value]
       \/ /\ AllFulfilled(folderPromise)
          /\ loaded' = [state |-> "resolved",
                        value |-> NotNull(ValuesOf(folderPromise))]
    /\ UNCHANGED <<loadPc, folders, folderPromise, spectrumPromise>>
    /\ UNCHANGED notLoad

NextLoad ==
    \/ LoadMap
    \/ \E f \in DOMAIN folders : FolderReaddir(f)
    \/ \E f \in DOMAIN folders : FolderMolfile(f)
    \/ \E f \in DOMAIN spectrumPromise : \E k \in DOMAIN spectrumPromise[f] :
           SpectrumRead(f, k)
    \/ \E f \in DOMAIN folders : FolderSpectra(f)
    \/ LoadSettle

\* ---- claims on loadData ----

\* A folder with exactly one .mol file whose MS2 spectrum files all have data.
Loadable(folder) ==
    /\ Len(MolfilesOf(folder.files)) = 1
    /\ \A k \in DOMAIN JcampNamesOf(folder.files) :
           JcampNamesOf(folder.files)[k].data
\* A folder with exactly one .mol file and an MS2 spectrum file without data.
HasEmptySpectrum(folder) ==
    /\ Len(MolfilesOf(folder.files)) = 1
    /\ \E k \in DOMAIN JcampNamesOf(folder.files) :
           ~JcampNamesOf(folder.files)[k].data

\* C19: when a spectrum file of one folder yields no usable peak data, only
\* that folder's entry fails: once loadData has settled it has returned, and
\* the entry of every sibling folder that loads is in what it returned.
C19_AsStated ==
    (/\ loaded.state # "pending"
     /\ \E f \in DOMAIN folders : HasEmptySpectrum(folders[f])
     /\ \E f \in DOMAIN folders : Loadable(folders[f]))
    => /\ loaded.state = "resolved"
       /\ \A f \in DOMAIN folders :
              Loadable(folders[f]) =>
                  \E d \in DOMAIN loaded.value :
                      loaded.value[d].folderName = folders[f].name

(***************************************************************************)
(* fragmentCandidatesParallel                                              *)
(***************************************************************************)

\* maxConcurrency = 3 when the option is absent.
DefaultMaxConcurrency == 3
\* An optional number is <<>> when absent and <<n>> when given.
MaxConcurrencyOf(options) ==
    IF options.maxConcurrency = <<>> THEN DefaultMaxConcurrency
    ELSE options.maxConcurrency[1]

\* const labels = getPositiveIonizationLabels(dwar).filter(
\*   (l) => !excludeSet.has(l))
FragLabels(labels, excludeLabels) ==
    SelectSeq(labels,
              LAMBDA l : ~(\E k \in DOMAIN excludeLabels : excludeLabels[k] = l))

\* for (const candidate of candidates) for (const label of labels) tasks.push
BuildTasks(cands, labels) ==
    [t \in 1..(Len(cands) * Len(labels)) |->
        [candidateName |-> cands[((t - 1) \div Len(labels)) + 1].name,
         label |-> labels[((t - 1) % Len(labels)) + 1]]]

\* parentPort.postMessage({ candidateName, label, masses }) of the worker of
\* task i, from its workerData.
MessageOf(i) ==
    [candidateName |-> tasks[i + 1].candidateName, label |-> tasks[i + 1].label]

\* ---- inputs ----

FragTexts ==
    { Text("right", ColumnPropertiesEnd, HeaderLKM, rows, "epilogue") :
        rows \in { <<>>, <<IonNa>>, <<IonH, IonNa>>,
                   <<IonNa, IonKPositive, IonH>>,
                   <<Reaction, IonKPositive, EmptyLine, IonH, IonH>> } }
    \cup { Text("right", <<" ">> \o ColumnPropertiesEnd, HeaderLKM,
                <<IonNa>>, "epilogue") }
FragCandidates ==
    { <<>>, <<[name |-> NameA]>>, <<[name |-> NameB], [name |-> NameA]>> }
FragOptions ==
    [maxConcurrency : {<<>>, <<0>>, <<1>>, <<2>>},
     excludeLabels : {<<>>, <<LabelK>>, <<LabelK, LabelH>>}]

InitFrag ==
    /\ fragPc = "start"
    /\ dwar \in FragTexts
    /\ fragInput \in [candidates : FragCandidates, options : FragOptions]
    /\ tasks = <<>>
    /\ keepLabel = <<>>
    /\ labelsOut = <<>>
    /\ textOut = <<>>
    /\ scopedOut = <<>>
    /\ IdleLanes
    /\ IdleTree
    /\ IdleMs3
    /\ IdleRank
    /\ IdlePrint
    /\ IdleLoad
    /\ IdleWorkers
    /\ IdleIndex

\* The synchronous part of fragmentCandidatesParallel up to the call of
\* withConcurrencyLimit(tasks, maxConcurrency): the labels, the text filtered
\* once per label, the task list.  A throw rejects the returned promise.
FragBuild ==
    /\ fragPc = "start"
    /\ LET found == getPositiveIonizationLabels(dwar)
           labels == FragLabels(found.value, fragInput.options.excludeLabels)
           built == BuildTasks(fragInput.candidates, labels)
       IN IF \/ found.state = "thrown"
             \/ \E k \in DOMAIN labels :
                    filterDwarByIonization(dwar, labels[k]).state = "thrown"
          THEN /\ fragPc' = "thrown"
               /\ outer' = [state |-> "rejected", value |-> Empty]
               /\ UNCHANGED <<tasks, pc, nTasks, limit, results, taskState,
                              started, claimedBy>>
          ELSE /\ fragPc' = "built"
               /\ tasks' = built
               /\ pc' = "init"
               /\ nTasks' = Len(built)
               /\ limit' = MaxConcurrencyOf(fragInput.options)
               /\ results' = [i \in 0..(Len(built) - 1) |-> Empty]
               /\ taskState' = [i \in 0..(Len(built) - 1) |-> "unclaimed"]
               /\ started' = [i \in 0..(Len(built) - 1) |-> 0]
               /\ claimedBy' = [i \in 0..(Len(built) - 1) |-> {}]
               /\ UNCHANGED outer
    /\ UNCHANGED <<fragInput, dwar, nextIndex, lanePc, laneTask>>
    /\ UNCHANGED notFrag

NextFrag ==
    \/ FragBuild
    \/ Call
    \/ \E i \in Indices : TaskFulfil(i)
    \/ \E i \in Indices : TaskReject(i)
    \/ \E l \in Lanes : LaneResume(l)

\* ---- claims on fragmentCandidatesParallel ----

\* The labels of the positive ionization rows of the rule file, in order of
\* first appearance, that are not excluded.
KeptLabels ==
    LET found == getPositiveIonizationLabels(dwar).value
    IN SelectSeq(found,
           LAMBDA l : \A k \in DOMAIN fragInput.options.excludeLabels :
                          fragInput.options.excludeLabels[k] # l)

\* Slot i of the array the call resolved with holds the message of candidate
\* c for label l.
SlotHolds(i, c, l) ==
    /\ i \in DOMAIN outer.value
    /\ outer.value[i] # Empty
    /\ MessageOf(outer.value[i][2]).candidateName = fragInput.candidates[c].name
    /\ MessageOf(outer.value[i][2]).label = KeptLabels[l]

\* C20: fragmentCandidatesParallel resolves with exactly one entry per
\* (candidate, non-excluded positive ionization label), candidate-major with
\* the labels in discovery order: with L labels, position c*L + l holds the
\* entry of candidate c and label l; no entry has an excluded label.
C20_AsStated ==
    (fragPc = "built" /\ outer.state = "resolved") =>
        /\ DOMAIN outer.value =
               0..(Len(fragInput.candidates) * Len(KeptLabels) - 1)
        /\ \A c \in DOMAIN fragInput.candidates : \A l \in DOMAIN KeptLabels :
               SlotHolds((c - 1) * Len(KeptLabels) + (l - 1), c, l)

(***************************************************************************)
(* withConcurrencyLimit: failure, queue draining, limits below 1           *)
(***************************************************************************)

Unclaimed == {i \in Indices : taskState[i] = "unclaimed"}
LowestUnclaimed == CHOOSE i \in Unclaimed : \A j \in Unclaimed : i <= j

\* C22: once a task has failed, no task that was unclaimed at that moment is
\* started afterwards.
C22_AsStated ==
    [][(pc = "running" /\ \E i \in Indices : taskState[i] = "rejected")
           => \A j \in Unclaimed : taskState'[j] = "unclaimed"]_vars

\* The lane l resumes with the value of its task in this step.
ResumesFulfilled(l) ==
    /\ pc = "running"
    /\ lanePc[l] = "await"
    /\ taskState[laneTask[l]] = "fulfilled"
    /\ <<lanePc[l], laneTask[l], results[laneTask[l]]>>
           # <<lanePc'[l], laneTask'[l], results'[laneTask[l]]>>

\* C23: a lane that has returned leaves no task unclaimed, the claimed tasks
\* are an initial segment of the task list at every moment, and a lane that
\* resumes with its task's value while a task is unclaimed claims the lowest
\* unclaimed index and starts it.
C23_SharedQueue ==
    /\ [](pc = "running" =>
             /\ (\E l \in Lanes : lanePc[l] = "done") => Unclaimed = {}
             /\ \A i, j \in Indices :
                    (i < j /\ taskState[j] # "unclaimed")
                        => taskState[i] # "unclaimed")
    /\ [][\A l \in Lanes :
             (ResumesFulfilled(l) /\ Unclaimed # {})
                 => /\ lanePc'[l] = "await"
                    /\ laneTask'[l] = LowestUnclaimed
                    /\ taskState'[LowestUnclaimed] = "running"]_vars

\* Of five tasks on two lanes, the lane of task 1 ran tasks 2, 3 and 4 while
\* the other lane was still awaiting task 0.
C23_Witness ==
    /\ nTasks = 5 /\ limit = 2
    /\ taskState[0] = "running"
    /\ claimedBy[4] = {2}
    /\ claimedBy[3] = {2}
    /\ claimedBy[2] = {2}

\* C24: for every limit and every non-empty task list, a resolved result
\* array has every slot filled with its task's value.
C24_AsStated ==
    (nTasks >= 1 /\ outer.state = "resolved")
        => \A i \in Indices : outer.value[i] = TaskValue(i)

(***************************************************************************)
(* Worker threads behind the tasks                                         *)
(***************************************************************************)

\* Largest task list explored with worker threads.
MaxWorkers == 3

\* The worker of task i was created by tasks[i]() and has not ended.
WorkerAlive(i) == taskState[i] # "unclaimed" /\ i \notin ended

InitWorkers ==
    /\ pc = "init"
    /\ nTasks \in 0..MaxWorkers
    /\ limit \in 0..MaxWorkers
    /\ nextIndex = 0
    /\ results = [i \in 0..(nTasks - 1) |-> Empty]
    /\ lanePc = <<>>
    /\ laneTask = <<>>
    /\ taskState = [i \in 0..(nTasks - 1) |-> "unclaimed"]
    /\ started = [i \in 0..(nTasks - 1) |-> 0]
    /\ claimedBy = [i \in 0..(nTasks - 1) |-> {}]
    /\ outer = Pending
    /\ ended = {}
    /\ IdleDwar
    /\ IdleTree
    /\ IdleMs3
    /\ IdleRank
    /\ IdlePrint
    /\ IdleLoad
    /\ IdleFrag
    /\ IdleIndex

\* worker.on('message', (msg) => { resolve(msg); void worker.terminate(); })
WorkerMessage(i) ==
    /\ pc = "running"
    /\ WorkerAlive(i)
    /\ taskState' = [taskState EXCEPT ![i] = "fulfilled"]
    /\ ended' = ended \cup {i}
    /\ UNCHANGED <<pc, nTasks, limit, nextIndex, results, lanePc, laneTask,
                   started, claimedBy, outer>>
    /\ UNCHANGED notWorkers

\* worker.on('error', reject): an uncaught exception ends the thread.
WorkerError(i) ==
    /\ pc = "running"
    /\ WorkerAlive(i)
    /\ taskState' = [taskState EXCEPT ![i] = "rejected"]
    /\ ended' = ended \cup {i}
    /\ UNCHANGED <<pc, nTasks, limit, nextIndex, results, lanePc, laneTask,
                   started, claimedBy, outer>>
    /\ UNCHANGED notWorkers

\* worker.on('exit', (code) => { if (code !== 0) reject(...) }) of a thread
\* that ends without having posted a message or raised an error.
WorkerExit(i, code) ==
    /\ pc = "running"
    /\ WorkerAlive(i)
    /\ taskState' = IF code # 0 THEN [taskState EXCEPT ![i] = "rejected"]
                    ELSE taskState
    /\ ended' = ended \cup {i}
    /\ UNCHANGED <<pc, nTasks, limit, nextIndex, results, lanePc, laneTask,
                   started, claimedBy, outer>>
    /\ UNCHANGED notWorkers

ExitCodes == {0, 1}
WorkerEnds(i) ==
    \/ WorkerMessage(i)
    \/ WorkerError(i)
    \/ \E code \in ExitCodes : WorkerExit(i, code)

NextWorkers ==
    \/ Call
    \/ \E i \in Indices : WorkerMessage(i)
    \/ \E i \in Indices : WorkerError(i)
    \/ \E i \in Indices : \E code \in ExitCodes : WorkerExit(i, code)
    \/ \E l \in Lanes : LaneResume(l)

\* The event loop runs every continuation that is ready, and every worker
\* thread ends.
FairWorkers ==
    /\ WF_vars(Call)
    /\ \A l \in 1..MaxWorkers : WF_vars(l \in Lanes /\ LaneResume(l))
    /\ \A i \in 0..(MaxWorkers - 1) : WF_vars(i \in Indices /\ WorkerEnds(i))

\* C25: when every worker thread ends (by a message, an error or an exit with
\* any code), the call eventually resolves or rejects.
C25_AsStated == <>(outer.state # "pending")

(***************************************************************************)
(* MS3 analysis: the scores written per adduct                             *)
(***************************************************************************)

\* The mode the module documentation gives to the baseline score.
FullTreeMode == <<"f", "u", "l", "l", "-", "t", "r", "e", "e">>

RowsOf(adduct, mode) ==
    {r \in DOMAIN tableRows : tableRows[r][1] = adduct /\ tableRows[r][3] = mode}

\* C21: for every adduct whose precursor node was found the analysis outputs
\* two scores, a full-tree score and a subtree score.
C21_AsStated ==
    ms3Pc = "done" =>
        \A k \in DOMAIN ms3Log :
            ms3Log[k].found =>
                /\ RowsOf(ms3Log[k].adduct, FullTreeMode) # {}
                /\ RowsOf(ms3Log[k].adduct, SubtreeMode) # {}

(***************************************************************************)
(* Structural maps of the tree: assignUidsAndBuildMaps, getAncestorPath,   *)
(* verifyFilteredTree                                                      *)
(***************************************************************************)

\* Largest original forest indexed, in nodes.
MaxIndexed == 3

\* walk(root, null)
NullUid == 0 - 1

\* const uid = uidCounter++
UidCounterKept(counter) == counter
UidCounterAfter(counter) == counter + 1

\* walk(node, parentUid) of assignUidsAndBuildMaps, on the maps built so far.
RECURSIVE assignWalk(_, _, _, _)
RECURSIVE assignEach(_, _, _, _)
assignWalk(t, node, parentUid, st) ==
    LET uid == st.uidCounter
        st1 == [uidCounter |-> UidCounterAfter(st.uidCounter),
                uidOf |-> (node :> uid) @@ st.uidOf,
                uidToNode |-> (uid :> node) @@ st.uidToNode,
                childrenMap |-> (uid :> {}) @@ st.childrenMap,
                parentMap |-> st.parentMap]
        st2 == IF parentUid # NullUid
               THEN [st1 EXCEPT !.parentMap = (uid :> parentUid) @@ @,
                                !.childrenMap[parentUid] = @ \cup {uid}]
               ELSE st1
    IN assignEach(t, ChildrenOf(t, node), uid, st2)
\* for (const child of node.children ?? []) walk(child, uid), and
\* for (const root of trees) walk(root, null)
assignEach(t, nodes, parentUid, st) ==
    IF nodes = <<>> THEN st
    ELSE assignEach(t, Tail(nodes), parentUid,
                    assignWalk(t, Head(nodes), parentUid, st))

assignUidsAndBuildMaps(t, counter) ==
    assignEach(t, RootsOf(t), NullUid,
               [uidCounter |-> counter, uidOf |-> <<>>, uidToNode |-> <<>>,
                childrenMap |-> <<>>, parentMap |-> <<>>])

\* getAncestorPath(uid, parentMap): the uids from the root down to uid.
RECURSIVE getAncestorPath(_, _)
getAncestorPath(uid, pm) ==
    IF uid \in DOMAIN pm THEN getAncestorPath(pm[uid], pm) \o <<uid>>
    ELSE <<uid>>

\* A filtered forest is [parent, uid, matches]: parent as in a forest, uid[n]
\* is node.uid, matches[n] says whether the node's first m/z is within the
\* tolerance of an experimental peak.

\* originalChildrenMap.get(parentUid)?.has(uid) ?? false
ExistsAlways(cm, parentUid, uid) == TRUE
Exists(cm, parentUid, uid) == parentUid \in DOMAIN cm /\ uid \in cm[parentUid]

\* walkFiltered(node, parentNode), on the counters and lines so far; `walked`
\* lists the nodes an edge was counted for, in order.
RECURSIVE walkFiltered(_, _, _, _, _)
RECURSIVE walkFilteredEach(_, _, _, _, _)
walkFiltered(ft, cm, node, parentNode, st) ==
    LET exists == Exists(cm, ft.uid[parentNode], ft.uid[node])
        st1 == IF parentNode # NoNode
               THEN [edgeCount |-> st.edgeCount + 1,
                     validEdges |-> IF exists THEN st.validEdges + 1
                                    ELSE st.validEdges,
                     invalidEdges |-> IF exists THEN st.invalidEdges
                                      ELSE st.invalidEdges + 1,
                     edges |-> Append(st.edges,
                                  [parentUid |-> ft.uid[parentNode],
                                   uid |-> ft.uid[node],
                                   existsInOriginal |-> exists]),
                     walked |-> Append(st.walked, node)]
               ELSE st
    IN walkFilteredEach(ft, cm, ChildrenOf(ft, node), node, st1)
walkFilteredEach(ft, cm, nodes, parentNode, st) ==
    IF nodes = <<>> THEN st
    ELSE walkFilteredEach(ft, cm, Tail(nodes), parentNode,
                          walkFiltered(ft, cm, Head(nodes), parentNode, st))

\* collectAll: the filtered nodes in pre-order.
RECURSIVE collectAll(_, _)
collectAll(ft, nodes) ==
    IF nodes = <<>> THEN <<>>
    ELSE <<Head(nodes)>> \o collectAll(ft, ChildrenOf(ft, Head(nodes)))
         \o collectAll(ft, Tail(nodes))

\* The ancestor-path lines: one per peak-matched uid, first occurrence only.
RECURSIVE pathLines(_, _, _, _, _)
pathLines(ft, pm, precursorUids, nodes, printedPeaks) ==
    IF nodes = <<>> THEN <<>>
    ELSE LET node == Head(nodes)
             uid == ft.uid[node]
         IN IF ~ft.matches[node] \/ uid \in printedPeaks
            THEN pathLines(ft, pm, precursorUids, Tail(nodes), printedPeaks)
            ELSE LET ancestorUids == getAncestorPath(uid, pm)
                 IN <<[uid |-> uid, path |-> ancestorUids,
                       passes |-> \E k \in DOMAIN ancestorUids :
                                      ancestorUids[k] \in precursorUids]>>
                    \o pathLines(ft, pm, precursorUids, Tail(nodes),
                                 printedPeaks \cup {uid})

verifyFilteredTree(ft, cm, pm, precursorUids) ==
    LET counted == walkFilteredEach(ft, cm, RootsOf(ft), NoNode,
                       [edgeCount |-> 0, validEdges |-> 0, invalidEdges |-> 0,
                        edges |-> <<>>, walked |-> <<>>])
    IN [edgeCount |-> counted.edgeCount, validEdges |-> counted.validEdges,
        invalidEdges |-> counted.invalidEdges, edges |-> counted.edges,
        walked |-> counted.walked,
        paths |-> pathLines(ft, pm, precursorUids,
                            collectAll(ft, RootsOf(ft)), {})]

\* ---- inputs ----

\* The original forests: every shape of up to maxNodes nodes, one molecule
\* per node, at the target m/z or away from it.
IndexMasses == {<<100>>, <<300>>}
IndexForests(maxNodes) ==
    UNION {Forests(n, IndexMasses) : n \in 0..maxNodes} \cup {ExampleForest}

\* uidCounter is 0 at the first adduct and the number of nodes of the earlier
\* adducts at a later one.
CountersBefore == {0, 4}

\* What getFilteredReactions may hand back: a forest of one to three nodes
\* whose uids are those of original nodes, or a uid the original tree does
\* not have; every node matches an experimental peak, or the first one only.
FilteredShapes == {<<NoNode>>, <<NoNode, 1>>, <<NoNode, NoNode>>,
                   <<NoNode, 1, 2>>, <<NoNode, 1, 1>>}
FilteredForests(uids) ==
    UNION { { [parent |-> shape, uid |-> u, matches |-> m] :
              u \in [DOMAIN shape -> uids],
              m \in {[n \in DOMAIN shape |-> TRUE],
                     [n \in DOMAIN shape |-> n = 1]} } :
            shape \in FilteredShapes }

InitIndex ==
    /\ indexPc = "start"
    /\ trees \in IndexForests(MaxIndexed)
    /\ mz = TargetMz
    /\ ppm = PRECURSOR_PPM
    /\ precursorNodes = NotCalled
    /\ descendantNodeSet = NotCalled
    /\ uidCounter \in CountersBefore
    /\ uidOf = <<>>
    /\ parentMap = <<>>
    /\ childrenMap = <<>>
    /\ uidToNode = <<>>
    /\ filteredTrees = <<>>
    /\ verification = <<>>
    /\ IdleLanes
    /\ IdleDwar
    /\ IdleMs3
    /\ IdleRank
    /\ IdlePrint
    /\ IdleLoad
    /\ IdleFrag
    /\ IdleWorkers

\* const { parentMap, childrenMap, uidToNode } =
\*   assignUidsAndBuildMaps(fragments.trees)
AssignUidsAndBuildMaps ==
    /\ indexPc = "start"
    /\ indexPc' = "assigned"
    /\ LET built == assignUidsAndBuildMaps(trees, uidCounter)
       IN /\ uidCounter' = built.uidCounter
          /\ uidOf' = built.uidOf
          /\ parentMap' = built.parentMap
          /\ childrenMap' = built.childrenMap
          /\ uidToNode' = built.uidToNode
    /\ UNCHANGED <<trees, filteredTrees, verification>>
    /\ UNCHANGED notIndex

IndexFindPrecursorNodes ==
    /\ indexPc = "assigned"
    /\ FindPrecursorNodes

IndexBuildDescendantNodeSet ==
    /\ indexPc = "assigned"
    /\ BuildDescendantNodeSet

\* const precursorUids = new Set(precursorNodes.map((n) => n.uid!))
PrecursorUids ==
    {uidOf[precursorNodes.value.found[k]] :
        k \in DOMAIN precursorNodes.value.found}

\* if (filteredReactions.trees.length > 0) verifyFilteredTree(...)
VerifyFilteredTree ==
    /\ indexPc = "assigned"
    /\ descendantNodeSet.state = "returned"
    /\ Len(precursorNodes.value.found) > 0
    /\ \E ft \in FilteredForests({uidOf[n] : n \in NodesOf(trees)}
                                 \cup {uidCounter}) :
           /\ filteredTrees' = ft
           /\ verification' =
                  verifyFilteredTree(ft, childrenMap, parentMap, PrecursorUids)
    /\ indexPc' = "verified"
    /\ UNCHANGED <<trees, uidCounter, uidOf, parentMap, childrenMap, uidToNode>>
    /\ UNCHANGED notIndex

NextIndex ==
    \/ AssignUidsAndBuildMaps
    \/ IndexFindPrecursorNodes
    \/ IndexBuildDescendantNodeSet
    \/ VerifyFilteredTree

\* ---- claims on the structural maps ----

\* C26: the descendant set built by object reference equals the set read from
\* the indexes: a node is a member exactly when its ancestor chain in
\* parentMap (getAncestorPath) holds the uid of a precursor node before its
\* own uid; no precursor node is a member.
C26_ReferenceEqualsIdentity ==
    (indexPc # "start" /\ descendantNodeSet.state = "returned")
        => /\ \A n \in NodesOf(trees) :
                  LET path == getAncestorPath(uidOf[n], parentMap)
                  IN n \in descendantNodeSet.value
                         <=> \E k \in 1..(Len(path) - 1) : path[k] \in PrecursorUids
           /\ \A k \in DOMAIN precursorNodes.value.found :
                  precursorNodes.value.found[k] \notin descendantNodeSet.value

\* A precursor below the root with a grandchild: child and grandchild are in
\* the set, the root and the precursor are not.
C26_Witness ==
    /\ indexPc = "assigned"
    /\ descendantNodeSet.state = "returned"
    /\ trees = ExampleForest
    /\ precursorNodes.value.found = <<ExampleA>>
    /\ getAncestorPath(uidOf[ExampleA1], parentMap)
           = <<uidOf[ExampleRoot], uidOf[ExampleA], uidOf[ExampleA1]>>

\* C27: after assignUidsAndBuildMaps every node has its own uid, the uids are
\* the next consecutive counter values, a parent's uid is smaller than the uid
\* of each of its descendants, exactly the non-root nodes have a parentMap
\* entry, and parentMap[c] = p exactly when c is in childrenMap[p], exactly
\* when c is a child of p in the tree.
C27_UidsAndMaps ==
    indexPc # "start" =>
        LET Nodes == NodesOf(trees)
            Uids == {uidOf[n] : n \in Nodes}
        IN /\ DOMAIN uidOf = Nodes
           /\ \A a, b \in Nodes : a # b => uidOf[a] # uidOf[b]
           /\ Uids = (uidCounter - Cardinality(Nodes))..(uidCounter - 1)
           /\ \A n \in Nodes : \A a \in AncestorsOf(trees, n) : uidOf[a] < uidOf[n]
           /\ DOMAIN parentMap = {uidOf[n] : n \in {c \in Nodes : trees.parent[c] # NoNode}}
           /\ DOMAIN childrenMap = Uids
           /\ \A n \in Nodes : uidToNode[uidOf[n]] = n
           /\ \A c, p \in Nodes :
                  /\ (uidOf[c] \in DOMAIN parentMap /\ parentMap[uidOf[c]] = uidOf[p])
                         <=> uidOf[c] \in childrenMap[uidOf[p]]
                  /\ uidOf[c] \in childrenMap[uidOf[p]] <=> trees.parent[c] = p

\* At a later adduct (the counter starts above 0), a root with a child that
\* has a child of its own, listed after its uncle: the uids follow the walk,
\* not the order of the node list.
C27_Witness ==
    /\ indexPc = "assigned"
    /\ trees.parent = <<NoNode, NoNode, 1>>
    /\ uidOf = <<4, 6, 5>>
    /\ uidCounter = 7
    /\ parentMap[5] = 4
    /\ childrenMap[4] = {5}

\* The edges of the filtered forest, as pairs <<parent node, child node>>.
FilteredEdges(ft) ==
    {<<ft.parent[n], n>> : n \in {c \in NodesOf(ft) : ft.parent[c] # NoNode}}
OriginalEdge(parentUid, uid) ==
    \E c, p \in NodesOf(trees) :
        trees.parent[c] = p /\ uidOf[p] = parentUid /\ uidOf[c] = uid

\* C28: verifyFilteredTree counts every parent-to-child edge of the filtered
\* trees exactly once, as valid exactly when the child's uid is in the
\* original childrenMap entry of the parent's uid; the edge count is valid +
\* invalid; an invalid edge is logged and nothing else: the walk goes on, and
\* the trees and the index maps stay as they were.
C28_VerifyCountsEdges ==
    /\ [](indexPc = "verified" =>
            LET ft == filteredTrees
                v == verification
                Valid == {e \in FilteredEdges(ft) :
                             /\ ft.uid[e[1]] \in DOMAIN childrenMap
                             /\ ft.uid[e[2]] \in childrenMap[ft.uid[e[1]]]}
            IN /\ Len(v.walked) = Cardinality(FilteredEdges(ft))
               /\ {v.walked[k] : k \in DOMAIN v.walked}
                      = {e[2] : e \in FilteredEdges(ft)}
               /\ v.edgeCount = Cardinality(FilteredEdges(ft))
               /\ v.validEdges = Cardinality(Valid)
               /\ v.invalidEdges = Cardinality(FilteredEdges(ft) \ Valid)
               /\ v.edgeCount = v.validEdges + v.invalidEdges
               /\ Len(v.edges) = v.edgeCount
               /\ \A k \in DOMAIN v.edges :
                      /\ v.edges[k].uid = ft.uid[v.walked[k]]
                      /\ v.edges[k].parentUid = ft.uid[ft.parent[v.walked[k]]]
                      /\ v.edges[k].existsInOriginal
                             <=> OriginalEdge(v.edges[k].parentUid, v.edges[k].uid))
    /\ [][(indexPc = "assigned" /\ indexPc' = "verified")
             => UNCHANGED <<trees, uidCounter, uidOf, parentMap, childrenMap,
                            uidToNode>>]_vars

\* A filtered chain of three nodes whose first edge is in the original tree
\* and whose second edge is not: both are counted, the walk went on past the
\* invalid edge.
C28_Witness ==
    /\ indexPc = "verified"
    /\ filteredTrees.parent = <<NoNode, 1, 1>>
    /\ verification.edgeCount = 2
    /\ ~verification.edges[1].existsInOriginal
    /\ verification.edges[2].existsInOriginal

\* ---- pickBest and rankings without the solution ----

\* The entries of a molecule that pickBest retains and whose ranking holds a
\* row marked as the solution.
SolutionFound(k) ==
    \E i \in DOMAIN allRankings[k].candidates :
        allRankings[k].candidates[i].isSolution
FoundEntries(molecule, bestScoreKey) ==
    {k \in DOMAIN summaries :
        /\ summaries[k].molecule = molecule
        /\ summaries[k][bestScoreKey] > 0
        /\ SolutionFound(k)}
PrefersFound(result, rankKey, bestScoreKey) ==
    \A r \in DOMAIN result :
        LET found == FoundEntries(result[r].molecule, bestScoreKey)
        IN found # {} =>
               \E k \in found :
                   /\ summaries[k] = result[r]
                   /\ \A j \in found : summaries[k][rankKey] <= summaries[j][rankKey]

\* C29: pickBest never prefers an entry whose ranking lacks the solution over
\* an entry of the same molecule whose ranking has it: when a molecule has a
\* retained entry with the solution found, the entry kept for it is one with
\* the solution found, of the smallest rank among those.
C29_AsStated ==
    /\ printPc \in {"cosine", "done"} =>
           PrefersFound(bestCosine, "cosineRank", "cosineBestScore")
    /\ printPc = "done" =>
           PrefersFound(bestTanimoto, "tanimotoRank", "tanimotoBestScore")

\* ---- the rows of the global summary ----

\* C30: the global summary has one row per (molecule, adduct, spectrum)
\* combination, in the order of the loops, and every row is consistent:
\* total is the number of loaded candidates (each candidate is scored, also
\* one that matches no peak), solutionRank is -1 or lies in 1..total,
\* bestCosine >= solutionCosine, and solutionRank = 1 exactly when
\* bestCandidate is the molecule, i.e. the solution.
C30_SummaryRowsConsistent ==
    rankPc \in {"loop", "done"}
        => LET combos == Combinations(data, adductLabels)
           IN /\ Len(summaryRows) = comboIdx
              /\ rankPc = "done" => Len(summaryRows) = Len(combos)
              /\ \A i, j \in DOMAIN combos : i # j => combos[i] # combos[j]
              /\ comboIdx >= 1 => Len(scored) = Len(candidates)
              /\ \A k \in DOMAIN summaryRows :
                     LET row == summaryRows[k]
                     IN /\ row.molecule = combos[k].molecule
                        /\ row.adduct = combos[k].adduct
                        /\ row.spectrum = combos[k].spectrum
                        /\ row.total = Len(candidates)
                        /\ \/ row.solutionRank = 0 - 1
                           \/ row.solutionRank \in 1..row.total
                        /\ row.bestCosine >= row.solutionCosine
                        /\ row.solutionRank = 1 <=> row.bestCandidate = row.molecule

\* The summary of a finished run with four rows: in the first ranking the
\* solution has cosine 0 and is still counted and ranked, behind the other
\* candidate; the last molecule is no candidate.
C30_Witness ==
    /\ rankPc = "done"
    /\ Len(summaryRows) = 4
    /\ summaryRows[1].total = 2
    /\ summaryRows[1].solutionRank = 2
    /\ summaryRows[1].solutionCosine = 0
    /\ summaryRows[1].bestCosine > 0
    /\ summaryRows[2].solutionRank = 1
    /\ summaryRows[4].solutionRank = 0 - 1

(***************************************************************************)
(* Specifications                                                          *)
(***************************************************************************)

SpecLanes == InitLanes /\ [][NextLanes]_vars
SpecDwar == InitDwar /\ [][NextDwar]_vars
SpecTree == InitTree /\ [][NextTree]_vars
SpecMs3 == InitMs3 /\ [][NextMs3]_vars
SpecRank == InitRank /\ [][NextRank]_vars
SpecPrint == InitPrint /\ [][NextPrint]_vars
SpecLoad == InitLoad /\ [][NextLoad]_vars
SpecFrag == InitFrag /\ [][NextFrag]_vars
SpecIndex == InitIndex /\ [][NextIndex]_vars
SpecWorkers == InitWorkers /\ [][NextWorkers]_vars /\ FairWorkers

====
